---- MODULE Spec2Model ----
(***************************************************************************)
(* State-machine model of the three IFC loader components:                 *)
(*   IfcLoader               (worker version,  IfcLoader.tsx 1-230)         *)
(*   IfcBuiltElementsLoader  (IfcLoader.tsx 232-1667)                       *)
(*   SimpleIfcLoader         (SimpleIfcLoader.tsx)                          *)
(* One behaviour follows one mounted component; `loader` says which.       *)
(* Engine calls (web-ifc) are inputs: each call either returns or throws.  *)
(***************************************************************************)
EXTENDS Integers, Sequences, FiniteSets, TLC

\* Number of file selections explored in one behaviour.
MaxFiles == 2

\* Number of engine / browser calls that throw in one behaviour.
MaxFaults == 1

\* `export const` lines in a schema text
MaxMatches == 2
MaxProperties == 3
MaxNested == 2

Null == "null"

Loaders == {"IfcLoader", "IfcBuiltElementsLoader", "SimpleIfcLoader"}

VARIABLES
    loader,        \* which component is mounted
    nFiles,        \* file selections made so far
    faults,        \* calls that have thrown so far
    loading,       \* useState loading (IfcLoader, IfcBuiltElementsLoader)
    error,         \* useState error
    modelInfo,     \* IfcLoader: useState modelInfo
    reading,       \* IfcLoader: uploads suspended at `await file.arrayBuffer()`
    workerRef,     \* IfcLoader: workerRef.current is set
    workerInbox,   \* messages posted to the worker, not yet handled
    mainInbox,     \* messages posted by the worker, not yet handled
    selfIfcAPI,    \* worker: self.ifcAPI is set
    initPc,        \* worker: position of the 'init' handler
    wModel,        \* worker engine: request -> state of the model it opened
    posted,        \* history: request -> terminal messages the worker posted
    result,        \* useState result
    logs,          \* useState logs
    script,        \* <Script>: "pending", "loaded" (window.WebIFC defined), "failed"
    mounted,       \* the component is mounted
    elements,      \* IfcBuiltElementsLoader: useState elements
    elementsByType,\* useState elementsByType
    ifcApi,        \* useState ifcApi, as committed (captured by the cleanup effect)
    modelID,       \* useState modelID, as committed
    stIfcApi,      \* ifcApi after the state updates not yet committed
    stModelID,     \* modelID after the state updates not yet committed
    lane,          \* pending React render: "none", "sync" (discrete event), "default"
    pc,            \* processFile: "idle", "init", "read", "tree", "walk"
    api,           \* processFile: const api
    stack,         \* extractModelElements: nodes still to visit, next first
    extracted,     \* extractModelElements: results so far
    engine,        \* IfcAPI instance -> the model it opened, the CloseModel calls
    fileSelected,  \* SimpleIfcLoader: useState fileSelected
    parsedElements,\* useState parsedElements
    spatialStructure, \* useState spatialStructure
    ifcSchema,     \* useState ifcSchema
    inverseIfcSchema, \* useState inverseIfcSchema
    schemaPc,      \* loadIfcSchema: "fetching", "done"
    runs,          \* SimpleIfcLoader: selection -> the processFile call it started
    caught,        \* history: the errors caught in the current run
    call           \* a function of a loader applied on its own: name, argument, result

workerVars == <<modelInfo, reading, workerRef, workerInbox, mainInbox,
                selfIfcAPI, initPc, wModel, posted>>

builtVars == <<elements, elementsByType, ifcApi, modelID, stIfcApi, stModelID,
               lane, pc, api, stack, extracted, engine>>

simpleVars == <<fileSelected, parsedElements, spatialStructure, ifcSchema,
                inverseIfcSchema, schemaPc, runs>>

sharedVars == <<result, logs, script, mounted, caught>>

programVars == <<loader, nFiles, faults, loading, error, workerVars, builtVars,
                 simpleVars, sharedVars>>

vars == <<programVars, call>>

\* a call returns (TRUE) or throws (FALSE); Throws counts the calls that threw
Throws(outcomes) == Cardinality({i \in DOMAIN outcomes : ~outcomes[i]})

Fault(outcomes) ==
    /\ faults + Throws(outcomes) <= MaxFaults
    /\ faults' = faults + Throws(outcomes)

Requests == 1..MaxFiles

\* ------------------------------------------------------------------------
\* JavaScript values as the loaders see them
\* ------------------------------------------------------------------------

\* a JS primitive: t is the `typeof` tag; a number that is NaN has s = "NaN"
Undefined == [t |-> "undefined", n |-> 0, s |-> "", b |-> FALSE]
Num(x)    == [t |-> "number", n |-> x, s |-> "", b |-> FALSE]
Str(x)    == [t |-> "string", n |-> 0, s |-> x, b |-> FALSE]
Bool(x)   == [t |-> "boolean", n |-> 0, s |-> "", b |-> x]
NaN       == [t |-> "number", n |-> 0, s |-> "NaN", b |-> FALSE]
JSNull    == [t |-> "null", n |-> 0, s |-> "", b |-> FALSE]

\* typeof v
typeof(v) == IF v.t = "null" THEN "object" ELSE v.t

\* an optional field holding an object { value: v }; Absent is a missing field
Absent    == [present |-> FALSE, value |-> Undefined]
Holder(v) == [present |-> TRUE, value |-> v]

\* `f && f.value !== undefined`
HasValue(f) == f.present /\ f.value.t # "undefined"

Digits == <<"0", "1", "2", "3", "4", "5", "6", "7", "8", "9">>

RECURSIVE NatToString(_)
NatToString(k) ==
    IF k < 10 THEN Digits[k + 1]
    ELSE NatToString(k \div 10) \o Digits[(k % 10) + 1]

\* String(v)
String(v) ==
    CASE v.t = "string"  -> v.s
      [] v.t = "number"  -> IF v.s = "NaN" THEN "NaN" ELSE NatToString(v.n)
      [] v.t = "boolean" -> IF v.b THEN "true" ELSE "false"
      [] v.t = "null"    -> "null"
      [] OTHER           -> "undefined"

\* Number(v); the numeric strings that occur in the modelled files are "0".."3"
Number(v) ==
    LET NumericStrings == <<"0", "1", "2", "3">>
    IN  CASE v.t = "number"  -> v
          [] v.t = "boolean" -> Num(IF v.b THEN 1 ELSE 0)
          [] v.t = "string"  ->
               IF v.s = "" THEN Num(0)
               ELSE IF \E k \in DOMAIN NumericStrings : NumericStrings[k] = v.s
                    THEN Num((CHOOSE k \in DOMAIN NumericStrings :
                                 NumericStrings[k] = v.s) - 1)
                    ELSE NaN
          [] v.t = "null"    -> Num(0)
          [] OTHER           -> NaN

\* JS truthiness of a primitive
Truthy(v) ==
    CASE v.t = "number"  -> v.n # 0 /\ v.s # "NaN"
      [] v.t = "string"  -> v.s # ""
      [] v.t = "boolean" -> v.b
      [] OTHER           -> FALSE

\* what a loop pushed, given what each of its iterations pushed
RECURSIVE Concat(_)
Concat(seqs) == IF seqs = <<>> THEN <<>> ELSE Head(seqs) \o Concat(Tail(seqs))

\* String.prototype.includes
includes(s, sub) ==
    \E i \in 1..(Len(s) - Len(sub) + 1) : SubSeq(s, i, i + Len(sub) - 1) = sub

LowerCase == <<"a", "b", "c", "d", "e", "f", "g", "h", "i", "j", "k", "l", "m",
               "n", "o", "p", "q", "r", "s", "t", "u", "v", "w", "x", "y", "z">>
UpperCase == <<"A", "B", "C", "D", "E", "F", "G", "H", "I", "J", "K", "L", "M",
               "N", "O", "P", "Q", "R", "S", "T", "U", "V", "W", "X", "Y", "Z">>

\* String.prototype.toUpperCase
RECURSIVE toUpperCase(_)
toUpperCase(s) ==
    LET UpperChar(c) ==
            IF \E i \in DOMAIN LowerCase : LowerCase[i] = c
            THEN UpperCase[CHOOSE i \in DOMAIN LowerCase : LowerCase[i] = c]
            ELSE c
    IN  IF Len(s) = 0 THEN ""
        ELSE UpperChar(SubSeq(s, 1, 1)) \o toUpperCase(SubSeq(s, 2, Len(s)))

\* String.prototype.replace(pattern, replacement) with a string pattern:
\* only the first occurrence is replaced
replace(s, pat, rep) ==
    IF includes(s, pat)
    THEN LET i == CHOOSE k \in 1..(Len(s) - Len(pat) + 1) :
                     /\ SubSeq(s, k, k + Len(pat) - 1) = pat
                     /\ \A j \in 1..(k - 1) : SubSeq(s, j, j + Len(pat) - 1) # pat
         IN  SubSeq(s, 1, i - 1) \o rep \o SubSeq(s, i + Len(pat), Len(s))
    ELSE s

\* ------------------------------------------------------------------------
\* Property-set normalisation (IfcBuiltElementsLoader)
\* ------------------------------------------------------------------------

PHYSICAL_ELEMENT_TYPES ==
    <<"IFCWALL", "IFCSLAB", "IFCDOOR", "IFCWINDOW", "IFCCOLUMN", "IFCBEAM",
      "IFCROOF", "IFCSTAIR", "IFCRAILING", "IFCFURNISHINGELEMENT",
      "IFCCURTAINWALL", "IFCMEMBER", "IFCPLATE">>

\* variant: the type name is compared as it is written
isPhysicalElementByNameCaseSensitive(typeName) ==
    IF Len(PHYSICAL_ELEMENT_TYPES) = 0 THEN TRUE
    ELSE \E k \in DOMAIN PHYSICAL_ELEMENT_TYPES :
            includes(typeName, PHYSICAL_ELEMENT_TYPES[k])

isPhysicalElementByName(typeName) ==
    IF Len(PHYSICAL_ELEMENT_TYPES) = 0 THEN TRUE
    ELSE \E k \in DOMAIN PHYSICAL_ELEMENT_TYPES :
            includes(toUpperCase(typeName), PHYSICAL_ELEMENT_TYPES[k])

\* an element of a Quantities / HasProperties array
EmptyItem ==
    [type |-> Undefined, Name |-> Absent, NominalValue |-> Absent, VolumeValue |-> Absent,
     AreaValue |-> Absent, LengthValue |-> Absent, WeightValue |-> Absent,
     CountValue |-> Absent]

\* one [key, value] pair of Object.entries(propSet)
ArrayEntry(k, xs) == [key |-> k, kind |-> "array", items |-> xs, obj |-> Absent]
ObjectEntry(k, h) == [key |-> k, kind |-> "object", items |-> <<>>, obj |-> h]

\* length of the longest run, from position i, of characters that are in
\* chars (member) or not in chars (~member): \d+, \s*, [^'"]+
RECURSIVE RunOf(_, _, _, _)
RunOf(s, i, chars, member) ==
    IF i <= Len(s) /\ ((SubSeq(s, i, i) \in chars) = member)
    THEN 1 + RunOf(s, i + 1, chars, member) ELSE 0

StartsAt(s, i, lit) == i + Len(lit) - 1 <= Len(s) /\ SubSeq(s, i, i + Len(lit) - 1) = lit

\* end position (exclusive) of a match of  HasProperties\[\d+\]<suffix>  that
\* starts at i, or 0 when there is none
IndexedMatchEnd(s, i, suffix) ==
    LET After(d) == IF d > 0 /\ StartsAt(s, i + 14 + d, "]" \o suffix)
                    THEN i + 14 + d + 1 + Len(suffix) ELSE 0
    IN  IF StartsAt(s, i, "HasProperties[")
        THEN After(RunOf(s, i + 14, {Digits[k] : k \in DOMAIN Digits}, TRUE))
        ELSE 0

\* capture group of /HasProperties\[\d+\]\.Name\.value\s*=\s*['"]([^'"]+)['"]/
\* for a match starting at i, or "" when there is none
NameValueCaptureAt(s, i) ==
    LET \* ([^'"]+)['"] : c characters after the opening quote at q, then a quote
        OfLength(q, c) ==
            IF c > 0 /\ q + 1 + c <= Len(s) THEN SubSeq(s, q + 1, q + c) ELSE ""
        \* ['"]([^'"]+)['"] at position q
        AtQuote(q) ==
            IF q > Len(s) \/ SubSeq(s, q, q) \notin {"'", "\""} THEN ""
            ELSE OfLength(q, RunOf(s, q + 1, {"'", "\""}, FALSE))
        \* =\s*['"]([^'"]+)['"] at position a
        AtEquals(a) ==
            IF ~StartsAt(s, a, "=") THEN ""
            ELSE AtQuote(a + 1 + RunOf(s, a + 1, {" "}, TRUE))
        \* \s*=\s*['"]([^'"]+)['"] at position e, the end of the indexed prefix
        AfterPrefix(e) ==
            IF e = 0 THEN "" ELSE AtEquals(e + RunOf(s, e, {" "}, TRUE))
    IN  AfterPrefix(IndexedMatchEnd(s, i, ".Name.value"))

\* regex.exec: the capture of the leftmost match at or after position i
RECURSIVE NameValueCapture(_, _)
NameValueCapture(s, i) ==
    LET OrElse(here, later) == IF here # "" THEN here ELSE later
    IN  IF i > Len(s) THEN ""
        ELSE OrElse(NameValueCaptureAt(s, i), NameValueCapture(s, i + 1))

\* propName.replace(/HasProperties\[\d+\]\.NominalValue/, "Property"): the
\* leftmost match at or after position i is replaced
RECURSIVE ReplaceNominal(_, _)
ReplaceNominal(s, i) ==
    LET EndingAt(e) ==
            IF e # 0 THEN SubSeq(s, 1, i - 1) \o "Property" \o SubSeq(s, e, Len(s))
            ELSE ReplaceNominal(s, i + 1)
    IN  IF i > Len(s) THEN s
        ELSE EndingAt(IndexedMatchEnd(s, i, ".NominalValue"))

NoPropertyValue == [isNull |-> TRUE, name |-> "", value |-> Undefined, type |-> ""]
PropertyValue(nm, v, ty) == [isNull |-> FALSE, name |-> nm, value |-> v, type |-> ty]

\* the display name chosen by extractPropertyValue for a field path
PropertyDisplayName(propName) ==
    LET OrElse(match, replaced) == IF match # "" THEN match ELSE replaced
    IN
    IF includes(propName, "Quantities[") /\ includes(propName, "VolumeValue") THEN "Volume"
    ELSE IF includes(propName, "Quantities[") /\ includes(propName, "AreaValue") THEN "Area"
    ELSE IF includes(propName, "Quantities[") /\ includes(propName, "LengthValue") THEN "Length"
    ELSE IF includes(propName, "HasProperties[0].NominalValue") THEN "IsExternal"
    ELSE IF includes(propName, "HasProperties[1].NominalValue") THEN "LoadBearing"
    ELSE IF includes(propName, "HasProperties[") /\ includes(propName, "NominalValue")
         THEN OrElse(NameValueCapture(propName, 1), ReplaceNominal(propName, 1))
    ELSE propName

\* extractPropertyValue(prop, propName) for prop an object { value: v } or a
\* missing one; `prop.value ?? null` turns an undefined value into null
extractPropertyValue(prop, propName) ==
    LET Typed(nm, value) == PropertyValue(nm, value, typeof(value))
    IN  IF includes(propName, "OwnerHistory") THEN NoPropertyValue
        ELSE IF ~prop.present THEN NoPropertyValue
        ELSE Typed(PropertyDisplayName(propName),
                   IF prop.value.t = "undefined" THEN JSNull ELSE prop.value)

\* `propertyNames`: the names collected from propSet.HasProperties before the
\* entries are walked, by index; Absent where the item has no Name.value
PropertyNames(propSet) ==
    LET Named(items) ==
            [i \in 0..(Len(items) - 1) |->
                IF HasValue(items[i + 1].Name)
                THEN Holder(Str(String(items[i + 1].Name.value))) ELSE Absent]
        Of(es) == IF es = <<>> \/ Head(es).kind # "array" THEN <<>>
                  ELSE Named(Head(es).items)
    IN  Of(SelectSeq(propSet.entries, LAMBDA e : e.key = "HasProperties"))

\* variant: no fallback name for the second item
ArrayItemPropertiesNoSecond(key, item, i, propertyNames) ==
    IF key = "Quantities"
    THEN IF HasValue(item.VolumeValue)
         THEN <<PropertyValue(IF item.Name.present /\ Truthy(item.Name.value)
                              THEN String(item.Name.value) ELSE "Volume",
                              Number(item.VolumeValue.value), "number")>>
         ELSE IF HasValue(item.AreaValue)
         THEN <<PropertyValue(IF item.Name.present /\ Truthy(item.Name.value)
                              THEN String(item.Name.value) ELSE "Area",
                              Number(item.AreaValue.value), "number")>>
         ELSE IF HasValue(item.LengthValue)
         THEN <<PropertyValue(IF item.Name.present /\ Truthy(item.Name.value)
                              THEN String(item.Name.value) ELSE "Length",
                              Number(item.LengthValue.value), "number")>>
         ELSE <<>>
    ELSE IF key = "HasProperties"
    THEN IF HasValue(item.NominalValue)
         THEN <<PropertyValue(IF HasValue(item.Name) THEN String(item.Name.value)
                              ELSE IF Truthy(propertyNames[i].value)
                              THEN propertyNames[i].value.s
                              ELSE IF i = 0 THEN "IsExternal"
                              ELSE "Property " \o NatToString(i + 1),
                              item.NominalValue.value, typeof(item.NominalValue.value))>>
         ELSE <<>>
    ELSE <<>>

\* the PropertyValues pushed for item i (0-based) of an array field `key`
ArrayItemProperties(key, item, i, propertyNames) ==
    IF key = "Quantities"
    THEN IF HasValue(item.VolumeValue)
         THEN <<PropertyValue(IF item.Name.present /\ Truthy(item.Name.value)
                              THEN String(item.Name.value) ELSE "Volume",
                              Number(item.VolumeValue.value), "number")>>
         ELSE IF HasValue(item.AreaValue)
         THEN <<PropertyValue(IF item.Name.present /\ Truthy(item.Name.value)
                              THEN String(item.Name.value) ELSE "Area",
                              Number(item.AreaValue.value), "number")>>
         ELSE IF HasValue(item.LengthValue)
         THEN <<PropertyValue(IF item.Name.present /\ Truthy(item.Name.value)
                              THEN String(item.Name.value) ELSE "Length",
                              Number(item.LengthValue.value), "number")>>
         ELSE <<>>
    ELSE IF key = "HasProperties"
    THEN IF HasValue(item.NominalValue)
         THEN <<PropertyValue(IF HasValue(item.Name) THEN String(item.Name.value)
                              ELSE IF Truthy(propertyNames[i].value)
                              THEN propertyNames[i].value.s
                              ELSE IF i = 0 THEN "IsExternal"
                              ELSE IF i = 1 THEN "LoadBearing"
                              ELSE "Property " \o NatToString(i + 1),
                              item.NominalValue.value, typeof(item.NominalValue.value))>>
         ELSE <<>>
    ELSE <<>>

\* the PropertyValues pushed for one [key, value] entry of the property set
EntryProperties(e, propertyNames) ==
    LET \* `if (propValue && propValue.value !== null) properties.push(propValue)`
        Pushed(pv) == IF ~pv.isNull /\ pv.value.t # "null" THEN <<pv>> ELSE <<>>
    IN  IF e.key \in {"type", "Name", "GlobalId", "expressID", "OwnerHistory"} THEN <<>>
        ELSE IF e.kind = "array"
             THEN Concat([k \in DOMAIN e.items |->
                            ArrayItemProperties(e.key, e.items[k], k - 1, propertyNames)])
        ELSE IF e.kind = "object" /\ ~includes(e.key, "OwnerHistory")
             THEN IF HasValue(e.obj)
                  THEN Pushed(extractPropertyValue(e.obj, e.key))
                  ELSE <<>>
        ELSE <<>>

\* extractPropertySet: propSet = [Name, entries]
extractPropertySet(propSet) ==
    [name |-> IF HasValue(propSet.Name) THEN String(propSet.Name.value)
              ELSE "Unnamed Set",
     properties |-> Concat([k \in DOMAIN propSet.entries |->
                              EntryProperties(propSet.entries[k], PropertyNames(propSet))])]

\* `if (propertySet.properties.length > 0) result.push(propertySet)`
RECURSIVE NonEmptyPropertySets(_)
NonEmptyPropertySets(sets) ==
    LET Pushed(ps) == IF Len(ps.properties) > 0 THEN <<ps>> ELSE <<>>
    IN  IF sets = <<>> THEN <<>>
        ELSE Pushed(extractPropertySet(Head(sets))) \o NonEmptyPropertySets(Tail(sets))

\* ------------------------------------------------------------------------
\* Material normalisation (IfcBuiltElementsLoader)
\* ------------------------------------------------------------------------

NoArray   == [present |-> FALSE, items |-> <<>>]
Array(xs) == [present |-> TRUE, items |-> xs]

NoMaterialRef    == [present |-> FALSE, Name |-> Absent]
MaterialRef(nm)  == [present |-> TRUE, Name |-> nm]

\* an element of MaterialLayers / MaterialProfiles / MaterialConstituents
EmptyNested == [Name |-> Absent, LayerThickness |-> Absent, Material |-> NoMaterialRef]

\* a record returned by getMaterialsProperties
EmptyMaterial ==
    [falsy |-> FALSE, type |-> "IFCMATERIAL", Name |-> Absent, Category |-> Absent,
     Description |-> Absent, Density |-> Absent, MaterialLayers |-> NoArray,
     MaterialProfiles |-> NoArray, MaterialConstituents |-> NoArray]

MaterialInfo(nm, cat, desc, props) ==
    [name |-> nm, category |-> cat, description |-> desc, properties |-> props]

\* which branch of the type dispatch a raw material takes
MaterialKind(material) ==
    IF material.type = "IFCMATERIAL" THEN "Simple"
    ELSE IF material.type = "IFCMATERIALLAYERSET" \/ material.MaterialLayers.present
         THEN "Layer"
    ELSE IF material.type = "IFCMATERIALPROFILESET" \/ material.MaterialProfiles.present
         THEN "Profile"
    ELSE IF material.type = "IFCMATERIALCONSTITUENTSET" \/ material.MaterialConstituents.present
         THEN "Constituent"
    ELSE "Other"

\* the array a composite branch iterates
NestedItems(material, kind) ==
    CASE kind = "Layer"       -> material.MaterialLayers.items
      [] kind = "Profile"     -> material.MaterialProfiles.items
      [] kind = "Constituent" -> material.MaterialConstituents.items
      [] OTHER                -> <<>>

ReferencedName(ref) ==
    IF HasValue(ref.Name) THEN String(ref.Name.value) ELSE "Unknown"

\* variant: the referenced material adds no property to the parent
NestedPropertiesOwnOnly(kind, item, i) ==
    LET Labelled(label) ==
            (IF kind = "Layer"
             THEN IF HasValue(item.LayerThickness)
                  THEN <<PropertyValue(label \o " Thickness",
                                       Number(item.LayerThickness.value), "number")>>
                  ELSE <<>>
             ELSE <<PropertyValue(label \o " Name",
                                  Str(IF HasValue(item.Name) THEN String(item.Name.value)
                                      ELSE label), "string")>>)
    IN  Labelled(kind \o " " \o NatToString(i + 1))

\* properties pushed on the parent for nested item i (0-based)
NestedProperties(kind, item, i) ==
    LET Labelled(label) ==
            (IF kind = "Layer"
             THEN IF HasValue(item.LayerThickness)
                  THEN <<PropertyValue(label \o " Thickness",
                                       Number(item.LayerThickness.value), "number")>>
                  ELSE <<>>
             ELSE <<PropertyValue(label \o " Name",
                                  Str(IF HasValue(item.Name) THEN String(item.Name.value)
                                      ELSE label), "string")>>)
            \o
            (IF item.Material.present
             THEN <<PropertyValue(label \o " Material",
                                  Str(ReferencedName(item.Material)), "string")>>
             ELSE <<>>)
    IN  Labelled(kind \o " " \o NatToString(i + 1))

\* the separate MaterialInfo pushed for the material nested item i refers to
NestedMaterials(kind, item, i, parentName) ==
    IF item.Material.present
    THEN <<MaterialInfo(ReferencedName(item.Material),
                        Str(kind \o " Material"),
                        Str(kind \o " " \o NatToString(i + 1) \o " in " \o parentName),
                        Array(<<>>))>>
    ELSE <<>>

\* the entries one raw material contributes to the result, in push order
MaterialEntries(material) ==
    LET \* category / description: String(field.value), or undefined
        OptionalString(field) ==
            IF HasValue(field) THEN Str(String(field.value)) ELSE Undefined
        Density ==
            IF HasValue(material.Density)
            THEN <<PropertyValue("Density", Number(material.Density.value), "number")>>
            ELSE <<>>
        \* `properties: properties.length > 0 ? properties : undefined`
        OptionalProperties(properties) ==
            IF Len(properties) > 0 THEN Array(properties) ELSE NoArray
        \* the entries when the type dispatch takes the branch `kind`
        OfKind(name, kind) ==
            Concat([k \in DOMAIN NestedItems(material, kind) |->
                      NestedMaterials(kind, NestedItems(material, kind)[k], k - 1, name)])
            \o <<MaterialInfo(name, OptionalString(material.Category),
                              OptionalString(material.Description),
                              OptionalProperties(
                                  Density
                                  \o Concat([k \in DOMAIN NestedItems(material, kind) |->
                                                NestedProperties(
                                                    kind, NestedItems(material, kind)[k],
                                                    k - 1)])))>>
    IN  IF material.falsy THEN <<>>
        ELSE OfKind(IF HasValue(material.Name) THEN String(material.Name.value)
                    ELSE "Unnamed Material",
                    MaterialKind(material))

\* the result list of extractMaterialsInfo for the raw materials of one element
RECURSIVE MaterialsInfo(_)
MaterialsInfo(materials) ==
    IF materials = <<>> THEN <<>>
    ELSE MaterialEntries(Head(materials)) \o MaterialsInfo(Tail(materials))

\* `for (let i = 1; i <= 20; i++)`: the layer indices that are scanned
MaxLayerIndex == 20

StructuredMaterialInfo(nm, ty, layers, props) ==
    [name |-> nm, type |-> ty, layers |-> layers, properties |-> props]

\* materials.filter(m => m.properties && m.properties.some(p =>
\*     p.name.includes(a) && p.name.includes(b)))
SetMaterials(materials, a, b) ==
    SelectSeq(materials,
              LAMBDA m : /\ m.properties.present
                         /\ \E k \in DOMAIN m.properties.items :
                               /\ includes(m.properties.items[k].name, a)
                               /\ includes(m.properties.items[k].name, b))

\* variant: a layer needs its material only
MaterialLayersOfMaterialOnly(props) ==
    LET Find(nm) == SelectSeq(props, LAMBDA p : p.name = nm)
        Layer(i, thickness, material) ==
            IF material # <<>>
            THEN <<[index |-> i,
                    thickness |-> IF thickness # <<>> THEN Number(thickness[1].value)
                                  ELSE NaN,
                    material |-> String(material[1].value)]>>
            ELSE <<>>
    IN  Concat([i \in 1..MaxLayerIndex |->
                  Layer(i, Find("Layer " \o NatToString(i) \o " Thickness"),
                           Find("Layer " \o NatToString(i) \o " Material"))])

\* variant: the scan goes on for as long as there are properties
MaterialLayersOfEveryIndex(props) ==
    LET Find(nm) == SelectSeq(props, LAMBDA p : p.name = nm)
        Layer(i, thickness, material) ==
            IF thickness # <<>> /\ material # <<>>
            THEN <<[index |-> i, thickness |-> Number(thickness[1].value),
                    material |-> String(material[1].value)]>>
            ELSE <<>>
    IN  Concat([i \in 1..Len(props) |->
                  Layer(i, Find("Layer " \o NatToString(i) \o " Thickness"),
                           Find("Layer " \o NatToString(i) \o " Material"))])

\* the layers found by the scan of the properties of one layer set material
MaterialLayersOf(props) ==
    LET \* properties.find(p => p.name === nm), as a list of at most one
        Find(nm) == SelectSeq(props, LAMBDA p : p.name = nm)
        Layer(i, thickness, material) ==
            IF thickness # <<>> /\ material # <<>>
            THEN <<[index |-> i, thickness |-> Number(thickness[1].value),
                    material |-> String(material[1].value)]>>
            ELSE <<>>
    IN  Concat([i \in 1..MaxLayerIndex |->
                  Layer(i, Find("Layer " \o NatToString(i) \o " Thickness"),
                           Find("Layer " \o NatToString(i) \o " Material"))])

\* the entries pushed for the layer set materials
LayerSetEntries(materials) ==
    LET Entry(m, layers) ==
            IF Len(layers) > 0
            THEN <<StructuredMaterialInfo(
                      m.name, "LayerSet", Array(layers),
                      Array(SelectSeq(m.properties.items,
                                      LAMBDA p : ~includes(p.name, "Layer"))))>>
            ELSE <<>>
        Of(sets) ==
            Concat([k \in DOMAIN sets |->
                      Entry(sets[k], MaterialLayersOf(sets[k].properties.items))])
    IN  Of(SetMaterials(materials, "Layer", "Thickness"))

\* the entries pushed for the profile set / constituent set materials
NamedSetEntries(materials, kind) ==
    LET Of(sets) ==
            [k \in DOMAIN sets |->
                StructuredMaterialInfo(sets[k].name, kind \o "Set", NoArray,
                                       sets[k].properties)]
    IN  Of(SetMaterials(materials, kind, "Name"))

\* the entries pushed for the remaining materials, given the set entries
SimpleEntries(materials, sets) ==
    LET Remaining(processedMaterialNames) ==
            SelectSeq(materials,
                      LAMBDA m : /\ m.name \notin processedMaterialNames
                                 /\ m.category \notin {Str("Layer Material"),
                                                        Str("Profile Material"),
                                                        Str("Constituent Material")})
        Of(rest) ==
            [k \in DOMAIN rest |->
                StructuredMaterialInfo(rest[k].name, "Simple", NoArray,
                                       rest[k].properties)]
    IN  Of(Remaining(UNION {{sets[k].layers.items[j].material :
                                j \in DOMAIN sets[k].layers.items} : k \in DOMAIN sets}
                     \cup {sets[k].name : k \in DOMAIN sets}))

\* organizeStructuredMaterials(materials)
organizeStructuredMaterials(materials) ==
    LET WithSimple(sets) == sets \o SimpleEntries(materials, sets)
    IN  WithSimple(LayerSetEntries(materials)
                   \o NamedSetEntries(materials, "Profile")
                   \o NamedSetEntries(materials, "Constituent"))

\* ------------------------------------------------------------------------
\* The opened model, as the engine reports it
\* ------------------------------------------------------------------------

TypeString(name) == [kind |-> "string", s |-> name, code |-> 0]
TypeCode(c)      == [kind |-> "number", s |-> "", code |-> c]

\* api.GetNameFromTypeCode
GetNameFromTypeCode(code) == IF code = 1529196076 THEN "IFCSLAB" ELSE "<web-ifc-type-unknown>"

Node(id, ty, kids) == [expressID |-> id, type |-> ty, children |-> kids]

\* api.properties.getSpatialStructure: a storey holding a wall (with a door),
\* a space and a slab whose type is reported as a numeric code
SpatialTree ==
    Node(1, TypeString("IFCBUILDINGSTOREY"),
         <<Node(2, TypeString("IFCWALL"), <<Node(4, TypeString("IfcDoor"), <<>>)>>),
           Node(3, TypeString("IFCSPACE"), <<>>),
           Node(5, TypeCode(1529196076), <<>>)>>)

ExpressIDs == 1..5

\* api.GetAllLines(modelID): the vector of express ids
GetAllLines == <<1, 2, 3, 4, 5>>

\* api.GetLine(modelID, expressID, true): the fields the loaders read
GetLine(id) ==
    CASE id = 1 -> [type |-> Str("IFCBUILDINGSTOREY"), Name |-> Holder(Str("Level 1")),
                    GlobalId |-> Holder(Str("g1"))]
      [] id = 2 -> [type |-> Str("IFCWALL"), Name |-> Holder(Str("Wall A")),
                    GlobalId |-> Holder(Str("g2"))]
      [] id = 3 -> [type |-> Str("IFCSPACE"), Name |-> Absent, GlobalId |-> Absent]
      [] id = 4 -> [type |-> Str("IfcDoor"), Name |-> Absent,
                    GlobalId |-> Holder(Str("g4"))]
      [] OTHER  -> [type |-> Num(1529196076), Name |-> Absent, GlobalId |-> Absent]

\* api.properties.getPropertySets(modelID, expressID, true)
getPropertySets(id) ==
    CASE id = 2 ->
           <<[type |-> Str("IFCPROPERTYSET"),
              Name |-> Holder(Str("Pset_WallCommon")),
              entries |-> <<ObjectEntry("Name", Holder(Str("Pset_WallCommon"))),
                            ArrayEntry("HasProperties",
                               <<[EmptyItem EXCEPT !.NominalValue = Holder(Bool(TRUE))],
                                 [EmptyItem EXCEPT !.Name = Holder(Str("FireRating")),
                                                   !.NominalValue = Holder(Str("F30"))]>>)>>],
             [type |-> Str("IFCELEMENTQUANTITY"),
              Name |-> Holder(Str("BaseQuantities")),
              entries |-> <<ArrayEntry("Quantities",
                               <<[EmptyItem EXCEPT !.type = Str("IFCQUANTITYAREA"),
                                                   !.Name = Holder(Str("NetArea")),
                                                   !.AreaValue = Holder(Num(12))],
                                 [EmptyItem EXCEPT !.type = Num(825690147),
                                                   !.WeightValue = Holder(Num(3))]>>)>>]>>
      [] id = 4 ->
           <<[type |-> Str("IFCPROPERTYSET"),
              Name |-> Absent,
              entries |-> <<ObjectEntry("Description", Holder(Str("door")))>>]>>
      [] id = 5 ->
           <<[type |-> Str("IFCPROPERTYSET"),
              Name |-> Holder(Str("Empty")), entries |-> <<>>],
             [type |-> Num(1883228015),
              Name |-> Holder(Str("Qto_SlabBaseQuantities")),
              entries |-> <<ArrayEntry("Quantities",
                               <<[EmptyItem EXCEPT !.type = Str("IFCQUANTITYLENGTH"),
                                                   !.Name = Holder(Str("Depth")),
                                                   !.LengthValue = Holder(Num(1))]>>)>>]>>
      [] OTHER  -> <<>>

\* api.properties.getTypeProperties(modelID, expressID, true)
getTypeProperties(id) ==
    IF id = 2
    THEN <<[Name |-> Holder(Str("Basic Wall")), Description |-> Absent]>>
    ELSE <<>>

\* the `export const NAME = NUMBER;` entries of /wasm/web-ifc/ifc-schema.js
SchemaMatches ==
    <<[name |-> "IFCSLAB", value |-> "1529196076"],
      [name |-> "IFCELEMENTQUANTITY", value |-> "1883228015"],
      [name |-> "IFCQUANTITYWEIGHT", value |-> "825690147"]>>

\* api.properties.getMaterialsProperties(modelID, expressID, true, true)
getMaterialsProperties(id) ==
    CASE id = 2 ->
           <<[EmptyMaterial EXCEPT
                !.type = "IFCMATERIALLAYERSET",
                !.Name = Holder(Str("Wall build-up")),
                !.MaterialLayers = Array(
                   <<[EmptyNested EXCEPT !.LayerThickness = Holder(Num(2)),
                         !.Material = MaterialRef(Holder(Str("Brick")))],
                     [EmptyNested EXCEPT !.LayerThickness = Holder(Num(1)),
                         !.Material = MaterialRef(Holder(Str("Plaster")))]>>)]>>
      [] id = 5 ->
           <<[EmptyMaterial EXCEPT !.Name = Holder(Str("Concrete")),
                                   !.Density = Holder(Num(2))]>>
      [] OTHER  -> <<>>

EngineError == "engine error"

\* ------------------------------------------------------------------------
\* IfcLoader (worker version)
\* ------------------------------------------------------------------------

StatusMsg(text) == [type |-> "status", message |-> text, req |-> 0]
ResultMsg(r)    == [type |-> "result", message |-> Null, req |-> r]
ErrorMsg(text)  == [type |-> "error", message |-> text, req |-> 0]

NoTerminal == [result |-> 0, error |-> 0, notInitialized |-> FALSE]

\* handleFileUpload up to `await file.arrayBuffer()`
handleFileUpload ==
    /\ loader = "IfcLoader"
    /\ ~loading                       \* <input disabled={loading}>
    /\ nFiles < MaxFiles
    /\ nFiles' = nFiles + 1
    /\ loading' = TRUE
    /\ error' = Null
    /\ modelInfo' = Null
    /\ reading' = reading \cup {nFiles + 1}
    /\ UNCHANGED <<call, builtVars, sharedVars, simpleVars, loader, faults, workerRef, workerInbox,
                   mainInbox, selfIfcAPI, initPc, wModel, posted>>

\* initWorker: what it appends to the worker's inbox
initWorker(inbox) ==
    IF ~workerRef THEN Append(inbox, [type |-> "init", req |-> 0]) ELSE inbox

\* handleFileUpload after the await: initWorker(), then postMessage(processIFC);
\* a rejected arrayBuffer() goes to the catch block
handleFileUploadResume ==
    /\ loader = "IfcLoader"
    /\ \E r \in reading, ok \in BOOLEAN :
        /\ Fault(<<ok>>)
        /\ reading' = reading \ {r}
        /\ IF ok
           THEN /\ workerRef' = TRUE
                /\ workerInbox' = Append(initWorker(workerInbox),
                                         [type |-> "processIFC", req |-> r])
                /\ UNCHANGED <<loading, error>>
           ELSE /\ loading' = FALSE
                /\ error' = "read failed"
                /\ UNCHANGED <<workerRef, workerInbox>>
    /\ UNCHANGED <<call, builtVars, sharedVars, simpleVars, loader, nFiles, modelInfo, mainInbox,
                   selfIfcAPI, initPc, wModel, posted>>

\* worker, self.onmessage, branch e.data.type === 'init', up to `await Init()`
WorkerInit ==
    /\ loader = "IfcLoader"
    /\ workerInbox # <<>>
    /\ Head(workerInbox).type = "init"
    /\ workerInbox' = Tail(workerInbox)
    /\ \E scriptOk \in BOOLEAN :
        /\ Fault(<<scriptOk>>)
        /\ IF scriptOk
           THEN /\ initPc' = "awaitInit"
                /\ mainInbox' = Append(mainInbox, StatusMsg("Initializing web-ifc..."))
           ELSE /\ initPc' = "failed"
                /\ mainInbox' = mainInbox \o <<StatusMsg("Initializing web-ifc..."),
                                               ErrorMsg("importScripts failed")>>
    /\ UNCHANGED <<call, builtVars, sharedVars, simpleVars, loader, nFiles, loading, error,
                   modelInfo, reading, workerRef, selfIfcAPI, wModel, posted>>

\* worker, 'init' branch after `await ifcAPI.Init()`
WorkerInitResume ==
    /\ loader = "IfcLoader"
    /\ initPc = "awaitInit"
    /\ \E ok \in BOOLEAN :
        /\ Fault(<<ok>>)
        /\ IF ok
           THEN /\ initPc' = "done"
                /\ selfIfcAPI' = TRUE
                /\ mainInbox' = Append(mainInbox, StatusMsg("Web-IFC initialized"))
           ELSE /\ initPc' = "failed"
                /\ selfIfcAPI' = selfIfcAPI
                /\ mainInbox' = Append(mainInbox, ErrorMsg("Init failed"))
    /\ UNCHANGED <<call, builtVars, sharedVars, simpleVars, loader, nFiles, loading, error,
                   modelInfo, reading, workerRef, workerInbox, wModel, posted>>

NotInitialized == "IFC API not initialized. Please call init first."

\* messages and model state produced by the 'processIFC' branch for request r
\* when OpenModel / GetAllEntities / CloseModel return (TRUE) or throw (FALSE)
processIFC(r, apiSet, openOk, entOk, closeOk) ==
    IF ~apiSet
    THEN [msgs  |-> <<ErrorMsg(NotInitialized)>>,
          model |-> "none"]
    ELSE IF ~openOk
    THEN [msgs  |-> <<StatusMsg("Processing IFC file..."), ErrorMsg("OpenModel failed")>>,
          model |-> "none"]
    ELSE IF ~entOk
    THEN [msgs  |-> <<StatusMsg("Processing IFC file..."), ErrorMsg("GetAllEntities failed")>>,
          model |-> "open"]
    ELSE IF closeOk
    THEN [msgs  |-> <<StatusMsg("Processing IFC file..."), ResultMsg(r)>>,
          model |-> "closed"]
    ELSE [msgs  |-> <<StatusMsg("Processing IFC file..."), ResultMsg(r),
                      ErrorMsg("CloseModel failed")>>,
          model |-> "closeThrew"]

CountType(msgs, t) == Cardinality({i \in DOMAIN msgs : msgs[i].type = t})

\* worker, self.onmessage, branch e.data.type === 'processIFC' (no await inside)
WorkerProcessIFC ==
    /\ loader = "IfcLoader"
    /\ workerInbox # <<>>
    /\ Head(workerInbox).type = "processIFC"
    /\ workerInbox' = Tail(workerInbox)
    /\ \E openOk, entOk, closeOk \in BOOLEAN :
        LET r   == Head(workerInbox).req
            out == processIFC(r, selfIfcAPI, openOk, entOk, closeOk)
        IN  /\ Fault(<<openOk, entOk, closeOk>>)
            \* a call that is not reached does not throw
            /\ ~selfIfcAPI => openOk
            /\ ~openOk => entOk
            /\ ~entOk => closeOk
            /\ mainInbox' = mainInbox \o out.msgs
            /\ wModel' = [wModel EXCEPT ![r] = out.model]
            /\ posted' = [posted EXCEPT ![r] =
                             [result |-> CountType(out.msgs, "result"),
                              error  |-> CountType(out.msgs, "error"),
                              notInitialized |-> ~selfIfcAPI]]
    /\ UNCHANGED <<call, builtVars, sharedVars, simpleVars, loader, nFiles, loading, error,
                   modelInfo, reading, workerRef, selfIfcAPI, initPc>>

\* main thread, workerRef.current.onmessage
WorkerOnMessage ==
    /\ loader = "IfcLoader"
    /\ mainInbox # <<>>
    /\ mainInbox' = Tail(mainInbox)
    /\ LET m == Head(mainInbox)
       IN  CASE m.type = "status" -> UNCHANGED <<modelInfo, loading, error>>
             [] m.type = "result" -> /\ modelInfo' = "Model of upload " \o NatToString(m.req)
                                     /\ loading' = FALSE
                                     /\ error' = error
             [] m.type = "error"  -> /\ error' = m.message
                                     /\ loading' = FALSE
                                     /\ modelInfo' = modelInfo
    /\ UNCHANGED <<call, builtVars, sharedVars, simpleVars, loader, nFiles, faults, reading,
                   workerRef, workerInbox, selfIfcAPI, initPc, wModel, posted>>

InitWorkerVars ==
    /\ modelInfo = Null
    /\ reading = {}
    /\ workerRef = FALSE
    /\ workerInbox = <<>>
    /\ mainInbox = <<>>
    /\ selfIfcAPI = FALSE
    /\ initPc = "none"
    /\ wModel = [r \in Requests |-> "none"]
    /\ posted = [r \in Requests |-> NoTerminal]

\* ------------------------------------------------------------------------
\* IfcBuiltElementsLoader
\* ------------------------------------------------------------------------

NoApi   == 0
NoModel == -1

Apis     == 1..MaxFiles
ModelIDs == {0, 1}

\* new Date().toISOString(); the clock is not modelled
Now == "2025-01-01T00:00:00.000Z"

\* addLog: the entries appended for the messages msgs
addLog(log, msgs) ==
    log \o [i \in 1..Len(msgs) |-> [timestamp |-> Now, message |-> msgs[i]]]

\* a state setter of an unmounted component changes nothing
SetState(cur, new) == IF mounted THEN new ELSE cur

Caught(kind, id) == [kind |-> kind, id |-> id]

\* <Script onLoad>
ScriptLoad ==
    /\ loader \in {"IfcBuiltElementsLoader", "SimpleIfcLoader"}
    /\ script = "pending"
    /\ lane # "sync"
    /\ script' = "loaded"
    /\ UNCHANGED <<call, loader, simpleVars, nFiles, faults, loading, error, workerVars, builtVars,
                   result, logs, mounted, caught>>

\* <Script onError>
ScriptError ==
    /\ loader \in {"IfcBuiltElementsLoader", "SimpleIfcLoader"}
    /\ script = "pending"
    /\ lane # "sync"
    /\ script' = "failed"
    /\ Fault(<<FALSE>>)
    /\ error' = SetState(error, "Failed to load IFC API script")
    /\ caught' = caught \cup {Caught("script", 0)}
    /\ UNCHANGED <<call, loader, simpleVars, nFiles, loading, workerVars, builtVars,
                   result, logs, mounted>>

\* the element built by processModelElement from the engine's answers
ModelElement(node, typeName, propertySets, materialsInfo) ==
    LET Of(element) ==
            [id |-> node.expressID,
             type |-> typeName,
             typeName |-> replace(typeName, "Ifc", ""),
             name |-> IF HasValue(element.Name) THEN String(element.Name.value)
                      ELSE IF HasValue(element.GlobalId)
                           THEN "[" \o String(element.GlobalId.value) \o "]"
                           ELSE "Element #" \o NatToString(node.expressID),
             globalId |-> IF HasValue(element.GlobalId)
                          THEN Str(String(element.GlobalId.value)) ELSE Undefined,
             propertySets |-> propertySets,
             materials |-> materialsInfo,
             structuredMaterials |-> organizeStructuredMaterials(materialsInfo),
             rawElement |-> Undefined]
    IN  Of(GetLine(node.expressID))

\* variant: the catch block of extractAllProperties without its addLog
extractAllPropertiesSilent(elementId, ok) ==
    IF ok
    THEN [result |-> NonEmptyPropertySets(getPropertySets(elementId)),
          msgs |-> <<>>, caught |-> {}]
    ELSE [result |-> <<>>, msgs |-> <<>>,
          caught |-> {Caught("properties", elementId)}]

\* extractAllProperties: the result and the log lines, given whether
\* getPropertySets returned
extractAllProperties(elementId, ok) ==
    IF ok
    THEN [result |-> NonEmptyPropertySets(getPropertySets(elementId)),
          msgs |-> <<>>, caught |-> {}]
    ELSE [result |-> <<>>,
          msgs |-> <<"Error getting properties for element " \o NatToString(elementId)
                     \o ": " \o EngineError>>,
          caught |-> {Caught("properties", elementId)}]

\* extractMaterialsInfo, given whether getMaterialsProperties returned
extractMaterialsInfo(elementId, ok) ==
    IF ok
    THEN LET Found(res) ==
                 [result |-> res,
                  msgs |-> <<"Found " \o NatToString(Len(res))
                             \o " materials for element " \o NatToString(elementId)>>,
                  caught |-> {}]
         IN  Found(MaterialsInfo(getMaterialsProperties(elementId)))
    ELSE [result |-> <<>>,
          msgs |-> <<"Error getting materials for element " \o NatToString(elementId)
                     \o ": " \o EngineError>>,
          caught |-> {Caught("materials", elementId)}]

NoElement == [found |-> <<>>, msgs |-> <<>>, caught |-> {}]

\* processModelElement from the physical-element test on
TypedElement(node, typeName, includeAll, propsOk, matsOk) ==
    LET Found(props, mats, el) ==
            [found |-> <<el>>,
             msgs |-> props.msgs \o mats.msgs \o
                      <<"Found element: " \o typeName \o " - " \o el.name
                        \o " (ID: " \o NatToString(node.expressID) \o ") with "
                        \o NatToString(Len(props.result)) \o " property sets">>,
             caught |-> props.caught \cup mats.caught]
        With(props, mats) ==
            Found(props, mats, ModelElement(node, typeName, props.result, mats.result))
    IN  IF ~isPhysicalElementByName(typeName) /\ ~includeAll THEN NoElement
        ELSE With(extractAllProperties(node.expressID, propsOk),
                  extractMaterialsInfo(node.expressID, matsOk))

\* variant: an element whose GetLine throws is still returned, without data
processModelElementKeepsFailed(node, includeAll, lineOk, propsOk, matsOk) ==
    IF ~lineOk
    THEN [found |-> <<ModelElement(node, "Unknown", <<>>, <<>>)>>,
          msgs |-> <<"Error processing element " \o NatToString(node.expressID)
                     \o ": " \o EngineError>>,
          caught |-> {Caught("element", node.expressID)}]
    ELSE IF node.type.kind \notin {"string", "number"} THEN NoElement
    ELSE TypedElement(node,
                      IF node.type.kind = "string" THEN node.type.s
                      ELSE GetNameFromTypeCode(node.type.code),
                      includeAll, propsOk, matsOk)

\* processModelElement: lineOk, propsOk, matsOk say whether GetLine (and the
\* type-name lookup), getPropertySets and getMaterialsProperties returned
processModelElement(node, includeAll, lineOk, propsOk, matsOk) ==
    IF ~lineOk
    THEN [found |-> <<>>,
          msgs |-> <<"Error processing element " \o NatToString(node.expressID)
                     \o ": " \o EngineError>>,
          caught |-> {Caught("element", node.expressID)}]
    ELSE IF node.type.kind \notin {"string", "number"} THEN NoElement
    ELSE TypedElement(node,
                      IF node.type.kind = "string" THEN node.type.s
                      ELSE GetNameFromTypeCode(node.type.code),
                      includeAll, propsOk, matsOk)

\* api.CloseModel(modelID) called on instance a
CloseModel(eng, a, id) == [eng EXCEPT ![a].closes = Append(@, id)]

\* variant: a cleanup that never calls CloseModel
CleanupEffectNoClose(closeOk) ==
    closeOk /\ UNCHANGED <<engine, logs, caught, faults>>

\* the cleanup function of the [ifcApi, modelID] effect, with the values it
\* captured; closeOk says whether CloseModel returned
CleanupEffect(closeOk) ==
    IF ifcApi # NoApi /\ modelID # NoModel
    THEN /\ engine' = CloseModel(engine, ifcApi, modelID)
         /\ Fault(<<closeOk>>)
         /\ IF closeOk
            THEN /\ logs' = addLog(logs, <<"Model closed and resources freed">>)
                 /\ caught' = caught
            ELSE /\ logs' = logs
                 /\ caught' = caught \cup {Caught("close", ifcApi)}
    ELSE closeOk /\ UNCHANGED <<engine, logs, caught, faults>>

\* React commits the pending state: when [ifcApi, modelID] changed, the old
\* effect's cleanup runs and the effect is set up again with the new values
Commit ==
    /\ loader = "IfcBuiltElementsLoader"
    /\ mounted
    /\ lane # "none"
    /\ lane' = "none"
    /\ ifcApi' = stIfcApi
    /\ modelID' = stModelID
    /\ IF <<stIfcApi, stModelID>> # <<ifcApi, modelID>>
       THEN \E closeOk \in BOOLEAN : CleanupEffect(closeOk)
       ELSE UNCHANGED <<engine, logs, caught, faults>>
    /\ UNCHANGED <<call, loader, simpleVars, nFiles, loading, error, workerVars, result, script,
                   mounted, elements, elementsByType, stIfcApi, stModelID, pc,
                   api, stack, extracted>>

\* the component unmounts: the cleanup of the committed effect runs
Unmount ==
    /\ loader = "IfcBuiltElementsLoader"
    /\ mounted
    /\ lane # "sync"
    /\ mounted' = FALSE
    /\ lane' = "none"
    /\ \E closeOk \in BOOLEAN : CleanupEffect(closeOk)
    /\ UNCHANGED <<call, loader, simpleVars, nFiles, loading, error, workerVars, result, script,
                   elements, elementsByType, ifcApi, modelID, stIfcApi,
                   stModelID, pc, api, stack, extracted>>

\* variant: the outer catch without the finally block
CatchProcessFileNoFinally(log, msg) ==
    /\ logs' = SetState(logs, addLog(log, <<"Error processing file: " \o msg>>))
    /\ error' = SetState(error, "Error: " \o msg)
    /\ caught' = caught \cup {Caught("file", nFiles)}
    /\ loading' = loading
    /\ pc' = "idle"

\* the outer catch and the finally block of processFile
CatchProcessFile(log, msg) ==
    /\ logs' = SetState(logs, addLog(log, <<"Error processing file: " \o msg>>))
    /\ error' = SetState(error, "Error: " \o msg)
    /\ caught' = caught \cup {Caught("file", nFiles)}
    /\ loading' = SetState(loading, FALSE)
    /\ pc' = "idle"

NextLane == IF mounted THEN "default" ELSE "none"

\* processFile, from the change event to `await api.Init()`
processFile ==
    /\ loader = "IfcBuiltElementsLoader"
    /\ mounted
    /\ ~loading                       \* <input disabled={loading}>
    /\ lane = "none"
    /\ nFiles < MaxFiles
    /\ nFiles' = nFiles + 1
    /\ result' = Null
    /\ elements' = <<>>
    /\ elementsByType' = <<>>
    /\ stModelID' = NoModel
    /\ lane' = "sync"
    /\ IF script # "loaded"
       THEN /\ logs' = addLog(<<>>, <<"Processing file: model.ifc",
                                      "Error processing file: WebIFC not loaded yet">>)
            /\ error' = "Error: WebIFC not loaded yet"
            /\ caught' = {Caught("file", nFiles + 1)}
            /\ loading' = FALSE
            /\ UNCHANGED <<pc, api, stIfcApi>>
       ELSE /\ logs' = addLog(<<>>, <<"Processing file: model.ifc",
                                      "Using WASM path (absolute): /wasm/web-ifc/">>)
            /\ error' = Null
            /\ caught' = {}
            /\ loading' = TRUE
            /\ api' = nFiles + 1
            /\ stIfcApi' = nFiles + 1
            /\ pc' = "init"
    /\ UNCHANGED <<call, loader, simpleVars, faults, workerVars, script, mounted, ifcApi, modelID,
                   stack, extracted, engine>>

\* processFile after `await api.Init()`
processFileInit ==
    /\ loader = "IfcBuiltElementsLoader"
    /\ pc = "init"
    /\ lane # "sync"
    /\ lane' = NextLane
    /\ \E ok \in BOOLEAN :
        /\ Fault(<<ok>>)
        /\ IF ok
           THEN /\ logs' = SetState(logs, addLog(logs, <<"IFC API initialized successfully">>))
                /\ pc' = "read"
                /\ UNCHANGED <<error, caught, loading>>
           ELSE CatchProcessFile(logs, EngineError)
    /\ UNCHANGED <<call, loader, simpleVars, nFiles, workerVars, result, script, mounted, elements,
                   elementsByType, ifcApi, modelID, stIfcApi, stModelID, api,
                   stack, extracted, engine>>

\* processFile after `await file.arrayBuffer()`: OpenModel, setModelID,
\* GetAllLines, up to `await getSpatialStructure()`
processFileOpen ==
    /\ loader = "IfcBuiltElementsLoader"
    /\ pc = "read"
    /\ lane # "sync"
    /\ lane' = NextLane
    /\ \E readOk, openOk, linesOk \in BOOLEAN, id \in ModelIDs :
        LET read   == addLog(logs, <<"File read successfully, size: 1 bytes">>)
            opened == addLog(read, <<"Model opened with ID: " \o NatToString(id)>>)
        IN  /\ Fault(<<readOk, openOk, linesOk>>)
            \* a call that is not reached does not throw or return anything
            /\ ~readOk => openOk
            /\ ~openOk => linesOk /\ id = 0
            /\ IF ~readOk
               THEN /\ CatchProcessFile(logs, "read failed")
                    /\ UNCHANGED <<engine, stModelID>>
               ELSE IF ~openOk
               THEN /\ CatchProcessFile(read, EngineError)
                    /\ UNCHANGED <<engine, stModelID>>
               ELSE /\ engine' = [engine EXCEPT ![api].model = id]
                    /\ stModelID' = SetState(stModelID, id)
                    /\ IF ~linesOk
                       THEN CatchProcessFile(opened, EngineError)
                       ELSE /\ logs' = SetState(logs, addLog(opened, <<"Total entities found: "
                                             \o NatToString(Cardinality(ExpressIDs))>>))
                            /\ pc' = "tree"
                            /\ UNCHANGED <<error, caught, loading>>
    /\ UNCHANGED <<call, loader, simpleVars, nFiles, workerVars, result, script, mounted, elements,
                   elementsByType, ifcApi, modelID, stIfcApi, api, stack, extracted>>

\* processFile after `await getSpatialStructure()`; the inner catch, then finally
processFileTree ==
    /\ loader = "IfcBuiltElementsLoader"
    /\ pc = "tree"
    /\ lane # "sync"
    /\ lane' = NextLane
    /\ \E ok \in BOOLEAN :
        /\ Fault(<<ok>>)
        /\ IF ok
           THEN /\ logs' = SetState(logs, addLog(logs,
                       <<"Retrieved spatial structure with root ID: "
                         \o NatToString(SpatialTree.expressID)>>))
                /\ stack' = <<SpatialTree>>
                /\ extracted' = <<>>
                /\ pc' = "walk"
                /\ UNCHANGED <<error, caught, loading>>
           ELSE /\ logs' = SetState(logs, addLog(logs,
                       <<"Error processing spatial structure: " \o EngineError>>))
                /\ error' = SetState(error, "Error processing spatial structure: " \o EngineError)
                /\ caught' = caught \cup {Caught("tree", nFiles)}
                /\ loading' = SetState(loading, FALSE)
                /\ pc' = "idle"
                /\ UNCHANGED <<stack, extracted>>
    /\ UNCHANGED <<call, loader, simpleVars, nFiles, workerVars, result, script, mounted, elements,
                   elementsByType, ifcApi, modelID, stIfcApi, stModelID, api, engine>>

\* processModelElement for every node of the tree and every outcome of its
\* engine calls; processFile passes includeAll = false
ProcessedNodes ==
    LET RECURSIVE NodesOf(_)
        NodesOf(node) ==
            {node} \cup UNION {NodesOf(node.children[i]) : i \in DOMAIN node.children}
    IN
    [node \in NodesOf(SpatialTree), lineOk \in BOOLEAN, propsOk \in BOOLEAN,
     matsOk \in BOOLEAN |-> processModelElement(node, FALSE, lineOk, propsOk, matsOk)]

\* variant: the children of a node are visited after the nodes already waiting
extractModelElementsBreadthFirst ==
    /\ loader = "IfcBuiltElementsLoader"
    /\ pc = "walk"
    /\ stack # <<>>
    /\ lane # "sync"
    /\ lane' = NextLane
    /\ \E lineOk, propsOk, matsOk \in BOOLEAN :
        \E out \in {ProcessedNodes[Head(stack), lineOk, propsOk, matsOk]} :
            /\ Fault(<<lineOk, propsOk, matsOk>>)
            \* a call that is not reached does not throw
            /\ out.found = <<>> => propsOk /\ matsOk
            /\ extracted' = extracted \o out.found
            /\ stack' = Tail(stack) \o Head(stack).children
            /\ logs' = SetState(logs, addLog(logs, out.msgs))
            /\ caught' = caught \cup out.caught
    /\ UNCHANGED <<call, loader, simpleVars, nFiles, loading, error, workerVars, result, script,
                   mounted, elements, elementsByType, ifcApi, modelID, stIfcApi,
                   stModelID, pc, api, engine>>

\* variant: the list on display grows with every element found
extractModelElementsStreaming ==
    /\ loader = "IfcBuiltElementsLoader"
    /\ pc = "walk"
    /\ stack # <<>>
    /\ lane # "sync"
    /\ lane' = NextLane
    /\ \E lineOk, propsOk, matsOk \in BOOLEAN :
        \E out \in {ProcessedNodes[Head(stack), lineOk, propsOk, matsOk]} :
            /\ Fault(<<lineOk, propsOk, matsOk>>)
            \* a call that is not reached does not throw
            /\ out.found = <<>> => propsOk /\ matsOk
            /\ extracted' = extracted \o out.found
            /\ elements' = SetState(elements, extracted \o out.found)
            /\ stack' = Head(stack).children \o Tail(stack)
            /\ logs' = SetState(logs, addLog(logs, out.msgs))
            /\ caught' = caught \cup out.caught
    /\ UNCHANGED <<call, loader, simpleVars, nFiles, loading, error, workerVars, result, script,
                   mounted, elementsByType, ifcApi, modelID, stIfcApi,
                   stModelID, pc, api, engine>>

\* extractModelElements: one node is processed, its children come next
extractModelElements ==
    /\ loader = "IfcBuiltElementsLoader"
    /\ pc = "walk"
    /\ stack # <<>>
    /\ lane # "sync"
    /\ lane' = NextLane
    /\ \E lineOk, propsOk, matsOk \in BOOLEAN :
        \E out \in {ProcessedNodes[Head(stack), lineOk, propsOk, matsOk]} :
            /\ Fault(<<lineOk, propsOk, matsOk>>)
            \* a call that is not reached does not throw
            /\ out.found = <<>> => propsOk /\ matsOk
            /\ extracted' = extracted \o out.found
            /\ stack' = Head(stack).children \o Tail(stack)
            /\ logs' = SetState(logs, addLog(logs, out.msgs))
            /\ caught' = caught \cup out.caught
    /\ UNCHANGED <<call, loader, simpleVars, nFiles, loading, error, workerVars, result, script,
                   mounted, elements, elementsByType, ifcApi, modelID, stIfcApi,
                   stModelID, pc, api, engine>>

\* the grouping built in processFile: type -> its elements, in list order
GroupByType(els) ==
    [t \in {els[i].type : i \in DOMAIN els} |-> SelectSeq(els, LAMBDA e : e.type = t)]

\* processFile after the walk: setElements, setResult, finally
processFileFinish ==
    /\ loader = "IfcBuiltElementsLoader"
    /\ pc = "walk"
    /\ stack = <<>>
    /\ lane # "sync"
    /\ lane' = NextLane
    /\ logs' = SetState(logs, addLog(logs, <<"Found " \o NatToString(Len(extracted))
                                             \o " elements with properties">>))
    /\ elements' = SetState(elements, extracted)
    /\ elementsByType' = SetState(elementsByType, GroupByType(extracted))
    /\ result' = SetState(result, "Successfully processed IFC file. Found "
                                  \o NatToString(Len(extracted)) \o " elements")
    /\ loading' = SetState(loading, FALSE)
    /\ pc' = "idle"
    /\ extracted' = <<>>
    /\ UNCHANGED <<call, loader, simpleVars, nFiles, faults, error, workerVars, script, mounted,
                   ifcApi, modelID, stIfcApi, stModelID, api, stack, engine,
                   caught>>

InitBuiltVars ==
    /\ elements = <<>>
    /\ elementsByType = <<>>
    /\ ifcApi = NoApi
    /\ modelID = NoModel
    /\ stIfcApi = NoApi
    /\ stModelID = NoModel
    /\ lane = "none"
    /\ pc = "idle"
    /\ api = NoApi
    /\ stack = <<>>
    /\ extracted = <<>>
    /\ engine = [a \in Apis |-> [model |-> NoModel, closes |-> <<>>]]

\* ------------------------------------------------------------------------
\* SimpleIfcLoader
\* ------------------------------------------------------------------------

\* addLog of SimpleIfcLoader: the message alone, no timestamp
SimpleAddLog(log, msgs) ==
    log \o [i \in 1..Len(msgs) |-> [timestamp |-> Null, message |-> msgs[i]]]

\* parseInt(value, 10) for a value matched by (\d+)
RECURSIVE parseInt(_)
parseInt(s) ==
    LET DigitValue(c) == (CHOOSE i \in DOMAIN Digits : Digits[i] = c) - 1
    IN  IF Len(s) = 0 THEN 0
        ELSE 10 * parseInt(SubSeq(s, 1, Len(s) - 1))
             + DigitValue(SubSeq(s, Len(s), Len(s)))

\* loadIfcSchema: schemaMap[name] = numValue, a later match overwriting
SchemaMap(ms) ==
    [nm \in {ms[i].name : i \in DOMAIN ms} |->
        parseInt(ms[CHOOSE i \in DOMAIN ms :
                       /\ ms[i].name = nm
                       /\ \A j \in DOMAIN ms : ms[j].name = nm => j <= i].value)]

\* variant: inverseMap[numValue] is written only when it has no entry yet
InverseMapFirstWins(ms) ==
    [c \in {parseInt(ms[i].value) : i \in DOMAIN ms} |->
        ms[CHOOSE i \in DOMAIN ms :
              /\ parseInt(ms[i].value) = c
              /\ \A j \in DOMAIN ms : parseInt(ms[j].value) = c => i <= j].name]

\* loadIfcSchema: inverseMap[numValue] = name, a later match overwriting
InverseMap(ms) ==
    [c \in {parseInt(ms[i].value) : i \in DOMAIN ms} |->
        ms[CHOOSE i \in DOMAIN ms :
              /\ parseInt(ms[i].value) = c
              /\ \A j \in DOMAIN ms : parseInt(ms[j].value) = c => j <= i].name]

\* variant: the placeholder does not carry the code
getTypeNameBare(inverse, typeCode) ==
    IF typeCode \in DOMAIN inverse /\ inverse[typeCode] # ""
    THEN inverse[typeCode]
    ELSE "Unknown Type"

\* getTypeName, reading the inverse map its closure captured
getTypeName(inverse, typeCode) ==
    IF typeCode \in DOMAIN inverse /\ inverse[typeCode] # ""
    THEN inverse[typeCode]
    ELSE "Unknown Type (" \o NatToString(typeCode) \o ")"

\* the effect run on mount: fetch the schema, build both maps
loadIfcSchema ==
    /\ loader = "SimpleIfcLoader"
    /\ schemaPc = "fetching"
    /\ schemaPc' = "done"
    /\ \E ok \in BOOLEAN :
        /\ Fault(<<ok>>)
        /\ IF ok
           THEN /\ ifcSchema' = SchemaMap(SchemaMatches)
                /\ inverseIfcSchema' = InverseMap(SchemaMatches)
                /\ logs' = SimpleAddLog(logs,
                      <<"Loaded IFC schema with "
                        \o NatToString(Cardinality(DOMAIN SchemaMap(SchemaMatches)))
                        \o " type definitions">>)
                /\ caught' = caught
           ELSE /\ logs' = SimpleAddLog(logs,
                      <<"Error loading IFC schema: Failed to load schema">>)
                /\ caught' = caught \cup {Caught("schema", 0)}
                /\ UNCHANGED <<ifcSchema, inverseIfcSchema>>
    /\ UNCHANGED <<call, loader, nFiles, loading, error, workerVars, builtVars,
                   fileSelected, parsedElements, spatialStructure, runs,
                   result, script, mounted>>

\* the value and unit chosen for a quantity from its *Value fields
SimpleQuantityValue(q) ==
    LET \* Number(x) for x an object { value: v }: the object is not unwrapped
        NumberOfObject(h) == NaN
    IN
    IF q.LengthValue.present
    THEN [value |-> NumberOfObject(q.LengthValue), unit |-> Str("m")]
    ELSE IF q.AreaValue.present
    THEN [value |-> NumberOfObject(q.AreaValue), unit |-> Str("m2")]
    ELSE IF q.VolumeValue.present
    THEN [value |-> NumberOfObject(q.VolumeValue), unit |-> Str("m3")]
    ELSE IF q.WeightValue.present
    THEN [value |-> NumberOfObject(q.WeightValue), unit |-> Str("kg")]
    ELSE IF q.CountValue.present
    THEN [value |-> NumberOfObject(q.CountValue), unit |-> Str("count")]
    ELSE [value |-> Str("Unknown"), unit |-> Undefined]

\* one qProp of pset.Quantities, for element id at loop index i
SimpleQuantity(q, i, id, inverse) ==
    LET Added(v, nm, qTypeName) ==
            [found |-> <<[name |-> nm, value |-> v.value, unit |-> v.unit,
                          type |-> qTypeName]>>,
             msgs |-> IF i < 5
                      THEN <<"Added quantity " \o nm \o " with value "
                             \o String(v.value) \o " "
                             \o (IF Truthy(v.unit) THEN v.unit.s ELSE "")
                             \o " for element " \o NatToString(id)>>
                      ELSE <<>>]
        Typed(qTypeName) ==
            IF ~Truthy(q.type)
            THEN [found |-> <<>>,
                  msgs |-> IF i < 5 THEN <<"Quantity has no type for element "
                                           \o NatToString(id)>> ELSE <<>>]
            ELSE IF q.type.t \in {"number", "string"} /\ ~includes(qTypeName, "IFCQUANTITY")
            THEN [found |-> <<>>,
                  msgs |-> IF i < 5 THEN <<"Quantity type is not IFCQUANTITY for element "
                                           \o NatToString(id) \o ": " \o qTypeName>>
                           ELSE <<>>]
            ELSE Added(SimpleQuantityValue(q),
                       IF HasValue(q.Name) THEN String(q.Name.value) ELSE "Unknown",
                       qTypeName)
    IN  Typed(IF q.type.t = "number" THEN getTypeName(inverse, q.type.n)
              ELSE String(q.type))

\* what two consecutive iterations found and logged
Joined(h, t) == [found |-> h.found \o t.found, msgs |-> h.msgs \o t.msgs]

RECURSIVE SimpleQuantities(_, _, _, _)
SimpleQuantities(items, i, id, inverse) ==
    IF items = <<>> THEN [found |-> <<>>, msgs |-> <<>>]
    ELSE Joined(SimpleQuantity(Head(items), i, id, inverse),
                SimpleQuantities(Tail(items), i, id, inverse))

\* one pset of propSets: the quantity set it yields, if it is one
SimpleQuantitySet(pset, i, id, inverse) ==
    LET Counted(items, each) ==
            [found |-> each.found,
             msgs |-> <<"Found " \o NatToString(Len(items))
                        \o " quantities in set for element "
                        \o NatToString(id)>> \o each.msgs]
        Quantities(es) ==
            IF es = <<>> \/ Head(es).kind # "array"
            THEN [found |-> <<>>,
                  msgs |-> IF es = <<>>
                           THEN <<"No Quantities property in IfcElementQuantity for element "
                                  \o NatToString(id)>>
                           ELSE <<"Quantities property is not an array for element "
                                  \o NatToString(id) \o ": object">>]
            ELSE Counted(Head(es).items,
                         SimpleQuantities(Head(es).items, i, id, inverse))
        Named(qs, nm) ==
            IF Len(qs.found) > 0
            THEN [found |-> <<[name |-> nm, quantities |-> qs.found]>>,
                  msgs |-> <<"Found IfcElementQuantity set for element " \o NatToString(id)>>
                           \o qs.msgs
                           \o <<"Added quantity set " \o nm \o " with "
                                \o NatToString(Len(qs.found))
                                \o " quantities for element " \o NatToString(id)>>]
            ELSE [found |-> <<>>,
                  msgs |-> <<"Found IfcElementQuantity set for element " \o NatToString(id)>>
                           \o qs.msgs]
    IN  IF ~(\/ pset.type.t = "string" /\ pset.type.s = "IFCELEMENTQUANTITY"
             \/ pset.type.t = "number"
                /\ getTypeName(inverse, pset.type.n) = "IFCELEMENTQUANTITY")
        THEN [found |-> <<>>, msgs |-> <<>>]
        ELSE Named(Quantities(SelectSeq(pset.entries, LAMBDA e : e.key = "Quantities")),
                   IF HasValue(pset.Name) THEN String(pset.Name.value)
                   ELSE "Unknown Quantity Set")

RECURSIVE SimpleQuantitySets(_, _, _, _)
SimpleQuantitySets(psets, i, id, inverse) ==
    IF psets = <<>> THEN [found |-> <<>>, msgs |-> <<>>]
    ELSE Joined(SimpleQuantitySet(Head(psets), i, id, inverse),
                SimpleQuantitySets(Tail(psets), i, id, inverse))

\* the try block around getPropertySets: element.quantities and the log lines
SimplePropertySets(i, id, inverse, ok) ==
    LET Collected(propSets, sets) ==
            [result |-> IF Len(sets.found) > 0 THEN Array(sets.found) ELSE NoArray,
             msgs |-> <<"Getting property sets for element " \o NatToString(id),
                        "Found " \o NatToString(Len(propSets))
                        \o " property sets for element " \o NatToString(id)>>
                      \o sets.msgs
                      \o (IF Len(sets.found) > 0
                          THEN <<"Element " \o NatToString(id) \o " has "
                                 \o NatToString(Len(sets.found))
                                 \o " quantity sets with data">>
                          ELSE <<"Element " \o NatToString(id)
                                 \o " has no quantity sets">>),
             caught |-> {}]
    IN  IF ~ok
        THEN [result |-> NoArray,
              msgs |-> <<"Getting property sets for element " \o NatToString(id),
                         "Error getting quantities for element " \o NatToString(id)
                         \o ": " \o EngineError>>,
              caught |-> {Caught("properties", id)}]
        ELSE Collected(getPropertySets(id),
                       SimpleQuantitySets(getPropertySets(id), i, id, inverse))

\* materials.map / typeProps.map: name, description and the raw record
SimpleInfo(raw, unknown) ==
    [name |-> IF HasValue(raw.Name) THEN String(raw.Name.value) ELSE unknown,
     description |-> IF HasValue(raw.Description)
                     THEN Str(String(raw.Description.value)) ELSE Undefined,
     properties |-> raw]

\* the try block around getMaterialsProperties
SimpleMaterials(id, ok) ==
    LET Mapped(materials) ==
            IF Len(materials) > 0
            THEN [result |-> Array([k \in DOMAIN materials |->
                                      SimpleInfo(materials[k], "Unknown Material")]),
                  msgs |-> <<"Found " \o NatToString(Len(materials))
                             \o " materials for element " \o NatToString(id)>>,
                  caught |-> {}]
            ELSE [result |-> NoArray, msgs |-> <<>>, caught |-> {}]
    IN  IF ~ok
        THEN [result |-> NoArray,
              msgs |-> <<"Error getting materials for element " \o NatToString(id)
                         \o ": " \o EngineError>>,
              caught |-> {Caught("materials", id)}]
        ELSE Mapped(getMaterialsProperties(id))

\* the try block around getTypeProperties
SimpleTypeProperties(id, ok) ==
    LET Mapped(typeProps) ==
            IF Len(typeProps) > 0
            THEN [result |-> Array([k \in DOMAIN typeProps |->
                                      SimpleInfo(typeProps[k], "Unknown Type")]),
                  msgs |-> <<"Found " \o NatToString(Len(typeProps))
                             \o " type properties for element " \o NatToString(id)>>,
                  caught |-> {}]
            ELSE [result |-> NoArray, msgs |-> <<>>, caught |-> {}]
    IN  IF ~ok
        THEN [result |-> NoArray,
              msgs |-> <<"Error getting type properties for element " \o NatToString(id)
                         \o ": " \o EngineError>>,
              caught |-> {Caught("typeProperties", id)}]
        ELSE Mapped(getTypeProperties(id))

\* one pass of the element loop, for index i (0-based); thrown is the set of
\* engine calls that throw
SimpleElement(i, thrown, inverse) ==
    LET Built(id, props, typeName, head, psets, mats, types) ==
            [found |-> <<[expressID |-> id,
                          type |-> props.type,
                          typeName |-> typeName,
                          properties |-> props,
                          name |-> IF HasValue(props.Name)
                                   THEN String(props.Name.value)
                                   ELSE IF HasValue(props.GlobalId)
                                   THEN String(props.GlobalId.value)
                                   ELSE "Element #" \o NatToString(id),
                          quantities |-> psets.result,
                          materials |-> mats.result,
                          typeProperties |-> types.result]>>,
             msgs |-> head \o psets.msgs \o mats.msgs \o types.msgs
                      \o (IF i < 5 THEN <<"Added element " \o NatToString(id)
                                          \o " to processed elements">> ELSE <<>>),
             caught |-> psets.caught \cup mats.caught \cup types.caught]
        Typed(id, props, raw, typeName) ==
            Built(id, props, typeName,
                  raw \o (IF i >= 10 THEN <<>>
                          ELSE IF props.type.t = "number"
                          THEN <<"Element " \o NatToString(id) \o " has numeric type: "
                                 \o String(props.type) \o " (" \o typeName \o ")">>
                          ELSE <<"Element " \o NatToString(id) \o " has string type: "
                                 \o props.type.s>>),
                  SimplePropertySets(i, id, inverse,
                                     Caught("properties", id) \notin thrown),
                  SimpleMaterials(id, Caught("materials", id) \notin thrown),
                  SimpleTypeProperties(id, Caught("typeProperties", id) \notin thrown))
        Pass(id, props, raw) ==
            IF Caught("element", id) \in thrown
            THEN [found |-> <<>>,
                  msgs |-> <<"Error processing element " \o NatToString(id) \o ": "
                             \o EngineError>>,
                  caught |-> {Caught("element", id)}]
            ELSE IF props.type.t \in {"undefined", "null"}
            THEN [found |-> <<>>,
                  msgs |-> raw \o (IF i < 10 THEN <<"Element " \o NatToString(id)
                                                    \o " skipped - no type property">>
                                   ELSE <<>>),
                  caught |-> {}]
            ELSE IF props.type.t \notin {"number", "string"}
            THEN [found |-> <<>>,
                  msgs |-> raw \o (IF i < 10 THEN <<"Element " \o NatToString(id)
                                                    \o " has invalid type: "
                                                    \o typeof(props.type)>>
                                   ELSE <<>>),
                  caught |-> {}]
            ELSE Typed(id, props, raw,
                       IF props.type.t = "number" THEN getTypeName(inverse, props.type.n)
                       ELSE props.type.s)
        AtLine(id) ==
            Pass(id, GetLine(id),
                 IF i < 5 THEN <<"Element " \o NatToString(id) \o " raw properties: ...">>
                 ELSE <<>>)
    IN  AtLine(GetAllLines[i + 1])

\* the inverse maps a processFile closure can have captured
SchemaStates == {<<>>, InverseMap(SchemaMatches)}

ElementCalls == {"element", "properties", "materials", "typeProperties"}

\* SimpleElement for every loop index, set of throwing calls and captured map
SimplePass ==
    [i \in 0..(Len(GetAllLines) - 1), kinds \in SUBSET ElementCalls,
     inverse \in SchemaStates |->
        SimpleElement(i, {Caught(k, GetAllLines[i + 1]) : k \in kinds}, inverse)]

\* the element loop: the outcome of each pass, in order
SimpleElements(elementsToShow, thrown, inverse) ==
    [i \in 1..elementsToShow |->
        SimplePass[i - 1, {c.kind : c \in {d \in thrown : d.id = GetAllLines[i]}}
                          \cap ElementCalls, inverse]]

\* the type name the filter and the sort compare
SimpleTypeName(el, inverse) ==
    IF el.type.t = "number" THEN getTypeName(inverse, el.type.n) ELSE String(el.type)

\* elementsWithData: all elements in debug mode, else those with data or an IFC type
SimpleFilter(els, debugMode, inverse) ==
    IF debugMode THEN els
    ELSE SelectSeq(els, LAMBDA el :
            \/ el.quantities.present
            \/ el.materials.present
            \/ el.typeProperties.present
            \/ includes(SimpleTypeName(el, inverse), "IFC"))

\* collation order of the characters in type names: space, punctuation,
\* digits, letters; case is a tie-break only
CollationOrder == <<" ", "_", "(", ")">> \o Digits \o LowerCase

LowerChar(c) ==
    IF \E i \in DOMAIN UpperCase : UpperCase[i] = c
    THEN LowerCase[CHOOSE i \in DOMAIN UpperCase : UpperCase[i] = c]
    ELSE c

\* character -> its position in the collation order, either case
CollationKeys ==
    [c \in {LowerCase[i] : i \in DOMAIN LowerCase} \cup
            {UpperCase[i] : i \in DOMAIN UpperCase} \cup
            {CollationOrder[i] : i \in DOMAIN CollationOrder} |->
        CHOOSE i \in DOMAIN CollationOrder : CollationOrder[i] = LowerChar(c)]

RECURSIVE ComparePrimary(_, _)
ComparePrimary(a, b) ==
    LET CollationKey(c) == IF c \in DOMAIN CollationKeys THEN CollationKeys[c] ELSE 0
        Ordered(ka, kb) ==
            IF ka < kb THEN -1
            ELSE IF ka > kb THEN 1
            ELSE ComparePrimary(SubSeq(a, 2, Len(a)), SubSeq(b, 2, Len(b)))
    IN  IF a = "" /\ b = "" THEN 0
        ELSE IF a = "" THEN -1
        ELSE IF b = "" THEN 1
        ELSE Ordered(CollationKey(SubSeq(a, 1, 1)), CollationKey(SubSeq(b, 1, 1)))

RECURSIVE CompareCase(_, _)
CompareCase(a, b) ==
    IF a = "" \/ b = "" THEN 0
    ELSE IF SubSeq(a, 1, 1) = SubSeq(b, 1, 1)
         THEN CompareCase(SubSeq(a, 2, Len(a)), SubSeq(b, 2, Len(b)))
         ELSE IF LowerChar(SubSeq(a, 1, 1)) = SubSeq(a, 1, 1) THEN -1 ELSE 1

\* String.prototype.localeCompare on type names
localeCompare(a, b) ==
    LET OrCase(primary) == IF primary # 0 THEN primary ELSE CompareCase(a, b)
    IN  OrCase(ComparePrimary(a, b))

\* elementsWithData.sort(by type name); Array.prototype.sort is stable: an
\* element goes after every element not greater than it
RECURSIVE SortByTypeName(_, _)
SortByTypeName(els, inverse) ==
    LET InsertAt(sorted, e, k) ==
            SubSeq(sorted, 1, k) \o <<e>> \o SubSeq(sorted, k + 1, Len(sorted))
        Insert(sorted, e) ==
            InsertAt(sorted, e,
                     Cardinality({j \in DOMAIN sorted :
                         localeCompare(SimpleTypeName(sorted[j], inverse),
                                       SimpleTypeName(e, inverse)) <= 0}))
    IN  IF els = <<>> THEN <<>>
        ELSE Insert(SortByTypeName(SubSeq(els, 1, Len(els) - 1), inverse), els[Len(els)])

\* a processFile call: where it is, the model it opened, the inverse map its
\* closure captured, and (history) the calls that threw in it
NoRun == [pc |-> "none", model |-> "none", schema |-> <<>>, thrown |-> {}]

\* the outer catch of processFile for run r, left in state run
SimpleCatch(r, run, log, msg) ==
    /\ logs' = SimpleAddLog(log, <<"Error processing file: " \o msg>>)
    /\ error' = "Error: " \o msg
    /\ caught' = caught \cup {Caught("file", r)}
    /\ runs' = [runs EXCEPT ![r] = [run EXCEPT !.pc = "done"]]

\* processFile, from the change event to `await ifcAPI.Init()`; the input
\* is never disabled
SimpleProcessFile ==
    /\ loader = "SimpleIfcLoader"
    /\ nFiles < MaxFiles
    /\ nFiles' = nFiles + 1
    /\ fileSelected' = TRUE
    /\ result' = Null
    /\ parsedElements' = <<>>
    /\ spatialStructure' = <<>>
    /\ IF script # "loaded"
       THEN /\ logs' = SimpleAddLog(<<>>, <<"Processing file: model.ifc",
                                           "Error processing file: WebIFC not loaded yet">>)
            /\ error' = "Error: WebIFC not loaded yet"
            /\ caught' = {Caught("file", nFiles + 1)}
            /\ runs' = [runs EXCEPT ![nFiles + 1] = [NoRun EXCEPT !.pc = "done"]]
       ELSE /\ logs' = SimpleAddLog(<<>>, <<"Processing file: model.ifc",
                                           "Using WASM path (absolute): /wasm/web-ifc/">>)
            /\ error' = Null
            /\ caught' = {}
            /\ runs' = [runs EXCEPT ![nFiles + 1] =
                          [NoRun EXCEPT !.pc = "init", !.schema = inverseIfcSchema]]
    /\ UNCHANGED <<call, loader, faults, loading, workerVars, builtVars, ifcSchema,
                   inverseIfcSchema, schemaPc, script, mounted>>

\* processFile after `await ifcAPI.Init()`
SimpleProcessFileInit ==
    /\ loader = "SimpleIfcLoader"
    /\ \E r \in Requests, ok \in BOOLEAN :
        /\ runs[r].pc = "init"
        /\ Fault(<<ok>>)
        /\ IF ok
           THEN /\ logs' = SimpleAddLog(logs, <<"IFC API initialized successfully">>)
                /\ runs' = [runs EXCEPT ![r].pc = "read"]
                /\ UNCHANGED <<error, caught>>
           ELSE SimpleCatch(r, [runs[r] EXCEPT !.thrown = {Caught("init", 0)}],
                            logs, EngineError)
    /\ UNCHANGED <<call, loader, nFiles, loading, workerVars, builtVars, fileSelected,
                   parsedElements, spatialStructure, ifcSchema, inverseIfcSchema,
                   schemaPc, result, script, mounted>>

\* processFile from GetAllLines to the sort: the elements shown and the log
\* lines, given the engine calls that throw and the captured inverse map
SimpleRun(thrown, inverse) ==
    LET count(found, p(_)) == NatToString(Len(SelectSeq(found, p)))
        Summary(size, elementsToShow, loop, found, shown) ==
            [size |-> size,
             shown |-> shown,
             caught |-> UNION {loop[i].caught : i \in DOMAIN loop},
             msgs |-> <<"Total entities found: " \o NatToString(size),
                        "Will process first " \o NatToString(elementsToShow)
                        \o " elements">>
                      \o Concat([i \in DOMAIN loop |-> loop[i].msgs]) \o
                      <<"Processed " \o NatToString(Len(found))
                        \o " valid elements out of "
                        \o NatToString(elementsToShow) \o " attempts",
                        "Found " \o NatToString(Len(found))
                        \o " elements with valid type property",
                        "Found " \o count(found, LAMBDA el : el.quantities.present)
                        \o " elements with quantity data",
                        "Found " \o count(found, LAMBDA el : el.materials.present)
                        \o " elements with material data",
                        "Found " \o count(found, LAMBDA el : el.typeProperties.present)
                        \o " elements with type property data",
                        "Final count after filtering: " \o NatToString(Len(shown))
                        \o " elements">>]
        Sorted(size, elementsToShow, loop, found) ==
            Summary(size, elementsToShow, loop, found,
                    SortByTypeName(SimpleFilter(found, TRUE, inverse), inverse))
        Looped(size, elementsToShow, loop) ==
            Sorted(size, elementsToShow, loop,
                   Concat([i \in DOMAIN loop |-> loop[i].found]))
        Sized(size, elementsToShow) ==
            Looped(size, elementsToShow, SimpleElements(elementsToShow, thrown, inverse))
    IN  Sized(Len(GetAllLines),
              IF Len(GetAllLines) < 100 THEN Len(GetAllLines) ELSE 100)

\* the sets of throwing calls explored for one run: at most MaxFaults of the
\* calls made after `await ifcAPI.Init()`, and a call that is not reached
\* does not throw
SimpleThrown ==
    LET SimpleCalls ==
            {Caught("read", 0), Caught("open", 0), Caught("tree", 0),
             Caught("lines", 0), Caught("close", 0)}
            \cup {Caught(k, GetAllLines[i]) : k \in ElementCalls, i \in DOMAIN GetAllLines}
        Reached(thrown) ==
            /\ Caught("read", 0) \in thrown => thrown = {Caught("read", 0)}
            /\ Caught("open", 0) \in thrown => thrown = {Caught("open", 0)}
            /\ Caught("lines", 0) \in thrown
                  => thrown \subseteq {Caught("tree", 0), Caught("lines", 0)}
            /\ \A c \in thrown :
                  c.kind \in {"properties", "materials", "typeProperties"}
                     => Caught("element", c.id) \notin thrown
        \* the subsets of SimpleCalls with at most k members
        RECURSIVE AtMost(_)
        AtMost(k) ==
            IF k = 0 THEN {{}}
            ELSE AtMost(k - 1) \cup {A \cup {x} : A \in AtMost(k - 1), x \in SimpleCalls}
    IN  {thrown \in AtMost(MaxFaults) : Reached(thrown)}

\* SimpleRun for every set of throwing calls and captured map
SimpleRuns ==
    [thrown \in SimpleThrown, inverse \in SchemaStates |-> SimpleRun(thrown, inverse)]

\* processFile after `await file.arrayBuffer()`, to its end: OpenModel,
\* getSpatialStructure, GetAllLines, the element loop, the sort,
\* setParsedElements, setResult, CloseModel.  The awaits on engine calls are
\* taken not to let another processFile call run in between.
SimpleProcessFileElements ==
    /\ loader = "SimpleIfcLoader"
    /\ \E r \in Requests, thrown \in SimpleThrown :
        \E read \in {SimpleAddLog(logs, <<"File read successfully, size: 1 bytes">>)},
           treeOk \in {Caught("tree", 0) \notin thrown},
           run \in {SimpleRuns[thrown, runs[r].schema]} :
        \E tree \in {SimpleAddLog(read,
                        <<"Model opened with ID: 0",
                          IF treeOk
                          THEN "Retrieved spatial structure with root ID: "
                               \o NatToString(SpatialTree.expressID)
                          ELSE "Error getting spatial structure: " \o EngineError>>)},
           treeCaught \in {IF treeOk THEN {} ELSE {Caught("tree", r)}} :
        \E done \in {SimpleAddLog(tree, run.msgs)} :
            /\ runs[r].pc = "read"
            /\ faults + Cardinality(thrown) <= MaxFaults
            /\ faults' = faults + Cardinality(thrown)
            /\ IF Caught("read", 0) \in thrown
               THEN /\ SimpleCatch(r, [runs[r] EXCEPT !.thrown = thrown], logs,
                                    "read failed")
                    /\ UNCHANGED <<parsedElements, result, spatialStructure>>
               ELSE IF Caught("open", 0) \in thrown
               THEN /\ SimpleCatch(r, [runs[r] EXCEPT !.thrown = thrown], read,
                                    EngineError)
                    /\ UNCHANGED <<parsedElements, result, spatialStructure>>
               ELSE /\ spatialStructure' = IF treeOk THEN <<SpatialTree>>
                                           ELSE spatialStructure
                    /\ IF Caught("lines", 0) \in thrown
                       THEN /\ logs' = SimpleAddLog(tree,
                                          <<"Error processing file: " \o EngineError>>)
                            /\ error' = "Error: " \o EngineError
                            /\ caught' = caught \cup treeCaught \cup {Caught("file", r)}
                            /\ runs' = [runs EXCEPT ![r].pc = "done",
                                                    ![r].model = "open",
                                                    ![r].thrown = thrown]
                            /\ UNCHANGED <<parsedElements, result>>
                       ELSE /\ parsedElements' = run.shown
                            /\ result' = "Successfully processed IFC file. Found "
                                         \o NatToString(run.size) \o " entities. Showing "
                                         \o NatToString(Len(run.shown))
                                         \o " elements with data."
                            /\ IF Caught("close", 0) \in thrown
                               THEN /\ logs' = SimpleAddLog(done,
                                          <<"Error processing file: " \o EngineError>>)
                                    /\ error' = "Error: " \o EngineError
                                    /\ caught' = caught \cup treeCaught \cup run.caught
                                                        \cup {Caught("file", r)}
                                    /\ runs' = [runs EXCEPT ![r].pc = "done",
                                                            ![r].model = "closeThrew",
                                                            ![r].thrown = thrown]
                               ELSE /\ logs' = SimpleAddLog(done,
                                          <<"Model closed and resources freed">>)
                                    /\ error' = error
                                    /\ caught' = caught \cup treeCaught \cup run.caught
                                    /\ runs' = [runs EXCEPT ![r].pc = "done",
                                                            ![r].model = "closed",
                                                            ![r].thrown = thrown]
    /\ UNCHANGED <<call, loader, nFiles, loading, workerVars, builtVars, fileSelected,
                   ifcSchema, inverseIfcSchema, schemaPc, script, mounted>>

InitSimpleVars ==
    /\ fileSelected = FALSE
    /\ parsedElements = <<>>
    /\ spatialStructure = <<>>
    /\ ifcSchema = <<>>
    /\ inverseIfcSchema = <<>>
    /\ schemaPc = "fetching"
    /\ runs = [r \in Requests |-> NoRun]

\* no function is applied on its own while a component runs
NoCall == [fn |-> "none", arg |-> <<>>, done |-> FALSE, ret |-> <<>>]

InitProgram ==
    /\ loader \in Loaders
    /\ nFiles = 0
    /\ faults = 0
    /\ loading = FALSE
    /\ error = Null
    /\ result = Null
    /\ logs = <<>>
    /\ script = "pending"
    /\ mounted = TRUE
    /\ caught = {}
    /\ InitWorkerVars
    /\ InitBuiltVars
    /\ InitSimpleVars

Init ==
    /\ InitProgram
    /\ call = NoCall

Next ==
    \/ handleFileUpload
    \/ handleFileUploadResume
    \/ WorkerInit
    \/ WorkerInitResume
    \/ WorkerProcessIFC
    \/ WorkerOnMessage
    \/ ScriptLoad
    \/ ScriptError
    \/ processFile
    \/ processFileInit
    \/ processFileOpen
    \/ processFileTree
    \/ extractModelElements
    \/ processFileFinish
    \/ Commit
    \/ Unmount
    \/ loadIfcSchema
    \/ SimpleProcessFile
    \/ SimpleProcessFileInit
    \/ SimpleProcessFileElements

Spec == Init /\ [][Next]_vars

\* every step that is not a user action or a resource load event: a pending
\* continuation, a queued worker message, a pending React render
Continue ==
    \/ handleFileUploadResume
    \/ WorkerInit
    \/ WorkerInitResume
    \/ WorkerProcessIFC
    \/ WorkerOnMessage
    \/ processFileInit
    \/ processFileOpen
    \/ processFileTree
    \/ extractModelElements
    \/ processFileFinish
    \/ Commit
    \/ SimpleProcessFileInit
    \/ SimpleProcessFileElements

\* every engine call returns or throws, every posted message is delivered and
\* every scheduled render is committed
FairSpec == Spec /\ WF_vars(Continue)

\* ------------------------------------------------------------------------
\* The JSON export
\* ------------------------------------------------------------------------

\* JSON.stringify of a primitive that is not undefined: NaN is written as null
JSONText(v) ==
    CASE v.t = "number"  -> IF v.s = "NaN" THEN "null" ELSE NatToString(v.n)
      [] v.t = "string"  -> "\"" \o v.s \o "\""
      [] v.t = "boolean" -> IF v.b THEN "true" ELSE "false"
      [] OTHER           -> "null"

\* JSON.parse of the text of a primitive
JSONParse(text) ==
    IF text = "null" THEN JSNull
    ELSE IF text = "true" THEN Bool(TRUE)
    ELSE IF text = "false" THEN Bool(FALSE)
    ELSE IF SubSeq(text, 1, 1) = "\"" THEN Str(SubSeq(text, 2, Len(text) - 1))
    ELSE Num(parseInt(text))

\* a value after JSON.parse(JSON.stringify(..)): a field whose value is
\* undefined is not written, and reads as undefined afterwards
Parsed(v)       == IF v.t = "undefined" THEN Undefined ELSE JSONParse(JSONText(v))
ParsedString(x) == Parsed(Str(x)).s
ParsedNumber(x) == Parsed(Num(x)).n
\* an optional object { value: v }
ParsedHolder(h) == IF h.present THEN Holder(Parsed(h.value)) ELSE Absent

ParsedProperties(props) ==
    [k \in DOMAIN props |->
        [props[k] EXCEPT !.name = ParsedString(@), !.value = Parsed(@),
                         !.type = ParsedString(@)]]

ParsedOptionalProperties(a) ==
    IF a.present THEN Array(ParsedProperties(a.items)) ELSE NoArray

\* the exported fields of the elements on display, written and parsed
ParsedElements(els) ==
    LET Sets(psets) ==
            [k \in DOMAIN psets |->
                [name |-> ParsedString(psets[k].name),
                 properties |-> ParsedProperties(psets[k].properties)]]
        Materials(mats) ==
            [k \in DOMAIN mats |->
                [name |-> ParsedString(mats[k].name),
                 category |-> Parsed(mats[k].category),
                 description |-> Parsed(mats[k].description),
                 properties |-> ParsedOptionalProperties(mats[k].properties)]]
        Layers(a) ==
            IF a.present
            THEN Array([k \in DOMAIN a.items |->
                          [index |-> ParsedNumber(a.items[k].index),
                           thickness |-> Parsed(a.items[k].thickness),
                           material |-> ParsedString(a.items[k].material)]])
            ELSE NoArray
        Structured(sms) ==
            [k \in DOMAIN sms |->
                [name |-> ParsedString(sms[k].name),
                 type |-> ParsedString(sms[k].type),
                 layers |-> Layers(sms[k].layers),
                 properties |-> ParsedOptionalProperties(sms[k].properties)]]
    IN  [k \in DOMAIN els |->
            [id |-> ParsedNumber(els[k].id),
             type |-> ParsedString(els[k].type),
             typeName |-> ParsedString(els[k].typeName),
             name |-> ParsedString(els[k].name),
             globalId |-> Parsed(els[k].globalId),
             propertySets |-> Sets(els[k].propertySets),
             materials |-> Materials(els[k].materials),
             structuredMaterials |-> Structured(els[k].structuredMaterials)]]

\* parsedElements of the simple loader, written and parsed
ParsedSimpleElements(els) ==
    LET Line(raw) ==
            [type |-> Parsed(raw.type), Name |-> ParsedHolder(raw.Name),
             GlobalId |-> ParsedHolder(raw.GlobalId)]
        Nested(a) ==
            IF a.present
            THEN Array([k \in DOMAIN a.items |->
                          [Name |-> ParsedHolder(a.items[k].Name),
                           LayerThickness |-> ParsedHolder(a.items[k].LayerThickness),
                           Material |->
                              [present |-> a.items[k].Material.present,
                               Name |-> ParsedHolder(a.items[k].Material.Name)]]])
            ELSE NoArray
        RawMaterial(raw) ==
            [falsy |-> raw.falsy, type |-> ParsedString(raw.type),
             Name |-> ParsedHolder(raw.Name), Category |-> ParsedHolder(raw.Category),
             Description |-> ParsedHolder(raw.Description),
             Density |-> ParsedHolder(raw.Density),
             MaterialLayers |-> Nested(raw.MaterialLayers),
             MaterialProfiles |-> Nested(raw.MaterialProfiles),
             MaterialConstituents |-> Nested(raw.MaterialConstituents)]
        RawType(raw) ==
            [Name |-> ParsedHolder(raw.Name), Description |-> ParsedHolder(raw.Description)]
        Infos(a, Raw(_)) ==
            IF a.present
            THEN Array([k \in DOMAIN a.items |->
                          [name |-> ParsedString(a.items[k].name),
                           description |-> Parsed(a.items[k].description),
                           properties |-> Raw(a.items[k].properties)]])
            ELSE NoArray
        Quantities(qs) ==
            [k \in DOMAIN qs |->
                [name |-> ParsedString(qs[k].name), value |-> Parsed(qs[k].value),
                 unit |-> Parsed(qs[k].unit), type |-> ParsedString(qs[k].type)]]
        QuantitySetsOf(a) ==
            IF a.present
            THEN Array([k \in DOMAIN a.items |->
                          [name |-> ParsedString(a.items[k].name),
                           quantities |-> Quantities(a.items[k].quantities)]])
            ELSE NoArray
    IN  [k \in DOMAIN els |->
            [expressID |-> ParsedNumber(els[k].expressID),
             type |-> Parsed(els[k].type),
             typeName |-> ParsedString(els[k].typeName),
             properties |-> Line(els[k].properties),
             name |-> ParsedString(els[k].name),
             quantities |-> QuantitySetsOf(els[k].quantities),
             materials |-> Infos(els[k].materials, RawMaterial),
             typeProperties |-> Infos(els[k].typeProperties, RawType)]]

\* ------------------------------------------------------------------------
\* The loaders' functions, applied on their own to bounded inputs
\* ------------------------------------------------------------------------

\* the sequences over S of length at most n
SeqsUpTo(S, n) == UNION {[1..k -> S] : k \in 0..n}

\* the calls of fn that are still to be made, one per argument
Pending(fn, args) == {[fn |-> fn, arg |-> a, done |-> FALSE, ret |-> <<>>] : a \in args}

\* the call of fn is still to be made
Calling(fn) == call.fn = fn /\ ~call.done

\* the call after it returned value
Returning(value) == [call EXCEPT !.done = TRUE, !.ret = value]

\* schema texts: the `export const NAME = NUMBER;` lines the regex matches
SchemaTexts ==
    SeqsUpTo([name : {"IFCWALL", "IFCSLAB"}, value : {"1", "01", "2"}], MaxMatches)

\* loadIfcSchema, lines 139-154: both maps built from the fetched text
ApplySchemaMaps ==
    /\ Calling("loadIfcSchema")
    /\ call' = Returning([schemaMap |-> SchemaMap(call.arg),
                          inverseMap |-> InverseMap(call.arg)])
    /\ UNCHANGED programVars

\* the inverse maps and the type codes getTypeName is applied to
TypeNameArgs ==
    [inverse : {InverseMap(ms) : ms \in SchemaTexts}, typeCode : 0..3]

ApplyGetTypeName ==
    /\ Calling("getTypeName")
    /\ call' = Returning(getTypeName(call.arg.inverse, call.arg.typeCode))
    /\ UNCHANGED programVars

\* spatial nodes (type: string | number) and the includeAll flag
CandidateArgs ==
    [node : {Node(id, ty, <<>>) :
                id \in {2, 3},
                ty \in {TypeString("IFCWALL"), TypeString("IfcWallStandardCase"),
                        TypeString("IFCSPACE"), TypeString("IfcDoor"),
                        TypeString("ifcbeam"), TypeString(""),
                        TypeCode(1529196076), TypeCode(7)}},
     includeAll : BOOLEAN]

\* processModelElement when no engine call throws
ApplyProcessModelElement ==
    /\ Calling("processModelElement")
    /\ call' = Returning(processModelElement(call.arg.node, call.arg.includeAll,
                                             TRUE, TRUE, TRUE))
    /\ UNCHANGED programVars

\* an IfcElementQuantity with one item in Quantities; each of the five value
\* fields of the item is missing or { value: k }
QuantitySets ==
    LET QuantityItems ==
            {[type |-> Str("IFCQUANTITYAREA"), Name |-> nm, NominalValue |-> Absent,
              LengthValue |-> l, AreaValue |-> a, VolumeValue |-> v, WeightValue |-> w,
              CountValue |-> c] :
                nm \in {Absent, Holder(Str("NetArea"))},
                l \in {Absent, Holder(Num(1))}, a \in {Absent, Holder(Num(2))},
                v \in {Absent, Holder(Num(3))}, w \in {Absent, Holder(Num(4))},
                c \in {Absent, Holder(Num(5))}}
    IN  {[type |-> Str("IFCELEMENTQUANTITY"), Name |-> Holder(Str("BaseQuantities")),
          entries |-> <<ArrayEntry("Quantities", <<q>>)>>] : q \in QuantityItems}

\* an IfcPropertySet with up to MaxProperties items in HasProperties, each
\* with or without Name.value and NominalValue.value
PropertySets ==
    LET PropertyItems ==
            {[EmptyItem EXCEPT !.Name = nm, !.NominalValue = v] :
                nm \in {Absent, Holder(Str("FireRating"))},
                v \in {Absent, Holder(Bool(TRUE))}}
            \cup {[EmptyItem EXCEPT !.Name = Holder(Str("")),
                                    !.NominalValue = Holder(Num(1))],
                  [EmptyItem EXCEPT !.Name = Holder(Undefined),
                                    !.NominalValue = Holder(Str("F30"))],
                  [EmptyItem EXCEPT !.NominalValue = Holder(Undefined)]}
    IN  {[type |-> Str("IFCPROPERTYSET"), Name |-> Holder(Str("Pset_WallCommon")),
          entries |-> <<ArrayEntry("HasProperties", items)>>] :
            items \in SeqsUpTo(PropertyItems, MaxProperties) \ {<<>>}}

\* extractPropertySet(propSet)
ApplyExtractPropertySet ==
    /\ Calling("extractPropertySet")
    /\ call' = Returning(extractPropertySet(call.arg))
    /\ UNCHANGED programVars

\* the body of `for (const pset of propSets)` for the first element (i = 0)
ApplySimpleQuantitySet ==
    /\ Calling("quantities")
    /\ call' = Returning(SimpleQuantitySet(call.arg, 0, 2, InverseMap(SchemaMatches)))
    /\ UNCHANGED programVars

\* layers, profiles or constituents: with or without a name, a thickness and
\* a referenced material (named or not)
NestedChoices ==
    [Name : {Absent, Holder(Str("Core"))},
     LayerThickness : {Absent, Holder(Num(2))},
     Material : {NoMaterialRef, MaterialRef(Holder(Str("Brick"))), MaterialRef(Absent)}]

\* composite material records with up to MaxNested nested items
CompositeMaterials ==
    {[EmptyMaterial EXCEPT !.type = "IFCMATERIALLAYERSET",
                           !.Name = Holder(Str("Build-up")), !.Density = d,
                           !.MaterialLayers = Array(items)] :
        d \in {Absent, Holder(Num(2))}, items \in SeqsUpTo(NestedChoices, MaxNested)}
    \cup
    {[EmptyMaterial EXCEPT !.type = "IFCMATERIALPROFILESET",
                           !.Name = Holder(Str("Build-up")), !.Density = d,
                           !.MaterialProfiles = Array(items)] :
        d \in {Absent, Holder(Num(2))}, items \in SeqsUpTo(NestedChoices, MaxNested)}
    \cup
    {[EmptyMaterial EXCEPT !.type = "IFCMATERIALCONSTITUENTSET",
                           !.Name = Holder(Str("Build-up")), !.Density = d,
                           !.MaterialConstituents = Array(items)] :
        d \in {Absent, Holder(Num(2))}, items \in SeqsUpTo(NestedChoices, MaxNested)}

\* records of each type tag that carry any of the three nested arrays, each
\* array with one item that references a material
TaggedMaterials ==
    LET OneItem(nm) == Array(<<[EmptyNested EXCEPT !.Material = MaterialRef(Holder(Str(nm)))]>>)
    IN  {[EmptyMaterial EXCEPT !.type = ty, !.Name = Holder(Str("Build-up")),
                               !.MaterialLayers = ls, !.MaterialProfiles = ps,
                               !.MaterialConstituents = cs] :
            ty \in {"IFCMATERIAL", "IFCMATERIALLAYERSET", "IFCMATERIALPROFILESET",
                    "IFCMATERIALCONSTITUENTSET"},
            ls \in {NoArray, OneItem("Brick")},
            ps \in {NoArray, OneItem("Steel")},
            cs \in {NoArray, OneItem("Gravel")}}

\* the loop of extractMaterialsInfo over the records the engine returned
ApplyMaterialsInfo ==
    /\ Calling("extractMaterialsInfo")
    /\ call' = Returning(MaterialsInfo(call.arg))
    /\ UNCHANGED programVars

\* a layer set whose first layers have a thickness and a referenced material
\* as flags says, and whose further layers, up to n, have both; layer k refers
\* to the material named Mk
LayerSetOf(flags, n) ==
    LET Count == IF n > Len(flags) THEN n ELSE Len(flags)
        Has(k, field) == k > Len(flags) \/ flags[k][field]
    IN  [EmptyMaterial EXCEPT
           !.type = "IFCMATERIALLAYERSET",
           !.Name = Holder(Str("Build-up")),
           !.MaterialLayers = Array(
              [k \in 1..Count |->
                  [EmptyNested EXCEPT
                     !.LayerThickness = IF Has(k, "thickness") THEN Holder(Num(2))
                                        ELSE Absent,
                     !.Material = IF Has(k, "material")
                                  THEN MaterialRef(Holder(Str("M" \o NatToString(k))))
                                  ELSE NoMaterialRef]])]

\* layer sets with layer counts below, at and above the number of indices
\* scanned
LayerSets ==
    {LayerSetOf(flags, n) :
        flags \in SeqsUpTo([thickness : BOOLEAN, material : BOOLEAN], MaxNested),
        n \in {0, 3, 20, 21, 22}}

\* simple materials and sets whose names coincide with each other or with
\* the material a layer refers to
NamedMaterials ==
    {[EmptyMaterial EXCEPT !.Name = Holder(Str(nm)), !.Density = d] :
        nm \in {"M1", "Steel", "Build-up"}, d \in {Absent, Holder(Num(2))}}
    \cup {LayerSetOf(<<>>, 1),
          [LayerSetOf(<<>>, 1) EXCEPT !.Name = Holder(Str("M1"))],
          [EmptyMaterial EXCEPT
             !.type = "IFCMATERIALPROFILESET", !.Name = Holder(Str("Steel")),
             !.MaterialProfiles = Array(
                <<[EmptyNested EXCEPT !.Material = MaterialRef(Holder(Str("M1")))]>>)]}

\* processModelElement: materialsInfo, then organizeStructuredMaterials
ApplyStructuredMaterials ==
    /\ Calling("organizeStructuredMaterials")
    /\ call' = Returning([materials |-> MaterialsInfo(call.arg),
                          structured |-> organizeStructuredMaterials(
                                             MaterialsInfo(call.arg))])
    /\ UNCHANGED programVars

\* the element lists a walk can put on display: what one node yields, and
\* the whole list when no engine call throws
DisplayedLists ==
    {ProcessedNodes[a[1], a[2], a[3], a[4]].found : a \in DOMAIN ProcessedNodes}
    \cup {Concat([id \in 1..5 |->
                    ProcessedNodes[CHOOSE a \in DOMAIN ProcessedNodes :
                                      /\ a[1].expressID = id
                                      /\ a[2] /\ a[3] /\ a[4]].found])}

\* handleDownloadElements: nothing is written for an empty list
ApplyHandleDownloadElements ==
    /\ Calling("handleDownloadElements")
    /\ call' = Returning([written |-> Len(call.arg) # 0,
                          parsed |-> ParsedElements(call.arg)])
    /\ UNCHANGED programVars

\* the lists the element loop can leave in parsedElements
ParsedElementLists ==
    {SimplePass[a].found : a \in DOMAIN SimplePass}
    \cup {Concat([i \in 1..Len(GetAllLines) |->
                    SimplePass[i - 1, {}, InverseMap(SchemaMatches)].found])}

\* handleDownload: nothing is written for an empty list
ApplyHandleDownload ==
    /\ Calling("handleDownload")
    /\ call' = Returning([written |-> Len(call.arg) # 0,
                          parsed |-> ParsedSimpleElements(call.arg)])
    /\ UNCHANGED programVars

\* the calls made in the component that owns the function
Calls(component) ==
    CASE component = "SimpleIfcLoader" ->
           Pending("loadIfcSchema", SchemaTexts) \cup Pending("getTypeName", TypeNameArgs)
           \cup Pending("quantities", QuantitySets)
           \cup Pending("handleDownload", ParsedElementLists)
      [] component = "IfcBuiltElementsLoader" ->
           Pending("processModelElement", CandidateArgs)
           \cup Pending("extractPropertySet", QuantitySets \cup PropertySets)
           \cup Pending("extractMaterialsInfo",
                         {<<m>> : m \in CompositeMaterials \cup TaggedMaterials})
           \cup Pending("organizeStructuredMaterials",
                         {<<m>> : m \in LayerSets}
                         \cup (NamedMaterials \X NamedMaterials))
           \cup Pending("handleDownloadElements", DisplayedLists)
      [] OTHER -> {NoCall}

CallInit ==
    /\ InitProgram
    /\ call \in Calls(loader)

CallNext ==
    \/ ApplySchemaMaps
    \/ ApplyGetTypeName
    \/ ApplyProcessModelElement
    \/ ApplyExtractPropertySet
    \/ ApplySimpleQuantitySet
    \/ ApplyMaterialsInfo
    \/ ApplyStructuredMaterials
    \/ ApplyHandleDownloadElements
    \/ ApplyHandleDownload

CallSpec == CallInit /\ [][CallNext]_vars

\* ------------------------------------------------------------------------
\* Properties
\* ------------------------------------------------------------------------

\* the messages of the log, in order
Messages(log) == [i \in DOMAIN log |-> log[i].message]

Logged(log, msg) == \E i \in DOMAIN log : log[i].message = msg

Range(seq) == {seq[i] : i \in DOMAIN seq}

\* C1: the worker never answers a processIFC request with
\* 'IFC API not initialized. Please call init first.': the init message has
\* been handled to its end before any processIFC message is handled
InitBeforeProcessIFC == \A r \in Requests : ~posted[r].notInitialized

\* IfcAPI instances whose model was opened and not passed to CloseModel
OpenHandles ==
    {a \in Apis : engine[a].model # NoModel /\ engine[a].model \notin Range(engine[a].closes)}

\* C2: IfcBuiltElementsLoader holds at most one open model handle in every
\* reachable state
AtMostOneOpenHandle ==
    loader = "IfcBuiltElementsLoader" => Cardinality(OpenHandles) <= 1

\* the next file's model is open and the previous file's model is closed
PreviousHandleClosed ==
    \E a, b \in Apis :
        /\ a # b
        /\ engine[a].model # NoModel
        /\ engine[a].model \in Range(engine[a].closes)
        /\ b \in OpenHandles

\* C3: once the component is unmounted and processFile has returned, every
\* handle returned by OpenModel has been passed to CloseModel exactly once on
\* the instance that opened it
ClosedExactlyOnce ==
    (loader = "IfcBuiltElementsLoader" /\ ~mounted /\ pc = "idle") =>
        \A a \in Apis :
            engine[a].model # NoModel =>
                Cardinality({i \in DOMAIN engine[a].closes :
                                engine[a].closes[i] = engine[a].model}) = 1

\* C4: when a run of SimpleIfcLoader or of the worker has ended, the model
\* it opened has been passed to CloseModel
OpenedModelsClosed ==
    \A r \in Requests :
        /\ runs[r].pc = "done" => runs[r].model # "open"
        /\ wModel[r] # "open"

\* the runs in flight: started by a file selection and not yet ended
RunsInFlight ==
    CASE loader = "SimpleIfcLoader" -> {r \in Requests : runs[r].pc \in {"init", "read"}}
      [] loader = "IfcLoader" ->
            reading \cup {workerInbox[i].req :
                            i \in {j \in DOMAIN workerInbox :
                                     workerInbox[j].type = "processIFC"}}
      [] OTHER -> IF pc = "idle" THEN {} ELSE {nFiles}

\* C5: at most one file-processing run is in flight at any time, in every
\* loader
AtMostOneRunInFlight == Cardinality(RunsInFlight) <= 1

\* SimpleIfcLoader shows the spinner while fileSelected && !result && !error
SpinnerOn == fileSelected /\ result = Null /\ error = Null

\* C6: after a file submission the run eventually ends: loading turns off
\* (IfcLoader, IfcBuiltElementsLoader while mounted), processFile returns, and
\* in SimpleIfcLoader result or error is set
RunEventuallyEnds ==
    /\ loading ~> (~loading \/ ~mounted)
    /\ (pc # "idle") ~> (pc = "idle")
    /\ SpinnerOn ~> ~SpinnerOn

\* the worker has answered an upload and the main thread has handled the
\* answer: loading is off again
UploadAnswered ==
    /\ loader = "IfcLoader"
    /\ \E r \in Requests : posted[r] # NoTerminal
    /\ RunsInFlight = {}
    /\ mainInbox = <<>>
    /\ ~loading

\* C7: for each handled processIFC request the worker has posted exactly one
\* terminal message, one 'result' or one 'error'
ExactlyOneTerminal ==
    \A r \in Requests :
        posted[r] # NoTerminal => posted[r].result + posted[r].error = 1

\* IfcBuiltElementsLoader: a run has ended with a success result
BuiltRunDone ==
    loader = "IfcBuiltElementsLoader" /\ mounted /\ pc = "idle" /\ result # Null

\* the nodes of the tree in the order extractModelElements visits them
RECURSIVE PreOrder(_)
PreOrder(node) ==
    <<node>> \o Concat([i \in DOMAIN node.children |-> PreOrder(node.children[i])])

\* the ids emitted when no engine call fails
BuiltBaseline ==
    LET nodes == SelectSeq(PreOrder(SpatialTree),
                           LAMBDA n : ProcessedNodes[n, TRUE, TRUE, TRUE].found # <<>>)
    IN  [i \in DOMAIN nodes |-> nodes[i].expressID]

FailedIds(cs, kind) == {c.id : c \in {d \in cs : d.kind = kind}}

\* C8: when getPropertySets or getMaterialsProperties fails for an element,
\* the failure is logged, the element is emitted with an empty propertySets
\* (materials) list, and every other node of the tree is still processed
SliceFailureContained ==
    BuiltRunDone =>
        /\ \A id \in FailedIds(caught, "properties") :
              /\ \E i \in DOMAIN elements :
                    elements[i].id = id /\ elements[i].propertySets = <<>>
              /\ Logged(logs, "Error getting properties for element "
                              \o NatToString(id) \o ": " \o EngineError)
        /\ \A id \in FailedIds(caught, "materials") :
              /\ \E i \in DOMAIN elements :
                    elements[i].id = id /\ elements[i].materials = <<>>
              /\ Logged(logs, "Error getting materials for element "
                              \o NatToString(id) \o ": " \o EngineError)
        /\ {elements[i].id : i \in DOMAIN elements}
             = Range(BuiltBaseline) \ FailedIds(caught, "element")

\* a run has ended in which a property or material query failed
SliceFailureSeen ==
    /\ BuiltRunDone
    /\ FailedIds(caught, "properties") \cup FailedIds(caught, "materials") # {}
    /\ Len(elements) = Len(BuiltBaseline)

\* the step of run r of SimpleIfcLoader that calls setParsedElements
SimpleEmits(r) ==
    /\ loader = "SimpleIfcLoader"
    /\ runs[r].pc = "read"
    /\ runs'[r].model \in {"closed", "closeThrew"}

\* the step of IfcBuiltElementsLoader that calls setElements
BuiltEmits ==
    loader = "IfcBuiltElementsLoader" /\ mounted /\ pc = "walk" /\ pc' = "idle"

IsSuccess(res) ==
    res # Null /\ SubSeq(res, 1, 32) = "Successfully processed IFC file."

\* the list set by setElements lacks exactly the elements whose processing
\* threw, each of them is logged, and the result is a success
BuiltEmitsAllButFailed ==
    BuiltEmits =>
        LET failed == FailedIds(caught, "element")
        IN  /\ [i \in DOMAIN elements' |-> elements'[i].id]
                 = SelectSeq(BuiltBaseline, LAMBDA id : id \notin failed)
            /\ \A id \in failed :
                  Logged(logs', "Error processing element " \o NatToString(id)
                                \o ": " \o EngineError)
            /\ IsSuccess(result')

\* the same for the list run r passes to setParsedElements, compared with
\* the list the run emits when no call throws
SimpleEmitsAllButFailed(r) ==
    SimpleEmits(r) =>
        LET failed   == FailedIds(runs'[r].thrown, "element")
            baseline == SimpleRuns[{}, runs[r].schema].shown
        IN  /\ [i \in DOMAIN parsedElements' |-> parsedElements'[i].expressID]
                 = SelectSeq([i \in DOMAIN baseline |-> baseline[i].expressID],
                             LAMBDA id : id \notin failed)
            /\ \A id \in failed :
                  Logged(logs', "Error processing element " \o NatToString(id)
                                \o ": " \o EngineError)
            /\ IsSuccess(result')

\* C9: when processing one element throws, the error is logged, exactly that
\* element is missing from the list the run emits, the other elements keep
\* their relative order, and the run sets a success result
ElementFailureContained ==
    [][BuiltEmitsAllButFailed /\ \A r \in Requests : SimpleEmitsAllButFailed(r)]_vars

\* a run has emitted its list with one element missing
ElementFailureSeen ==
    \/ BuiltRunDone /\ FailedIds(caught, "element") # {}
                    /\ Len(elements) = Len(BuiltBaseline) - 1
    \/ \E r \in Requests :
          /\ runs[r].model = "closed"
          /\ FailedIds(runs[r].thrown, "element") # {}
          /\ Len(parsedElements) = Len(GetAllLines) - 1

\* the log line an error of the given kind is reported with
ErrorLine(c) ==
    CASE c.kind = "properties" -> "Error getting properties for element "
                                  \o NatToString(c.id) \o ": " \o EngineError
      [] c.kind = "materials"  -> "Error getting materials for element "
                                  \o NatToString(c.id) \o ": " \o EngineError
      [] c.kind = "element"    -> "Error processing element "
                                  \o NatToString(c.id) \o ": " \o EngineError
      [] c.kind = "tree"       -> "Error processing spatial structure: " \o EngineError
      [] OTHER                 -> "Error"

\* C10: every error caught in the current run has an entry in the log, and
\* the entry carries a timestamp
EveryCaughtErrorLogged ==
    \A c \in caught :
        \E i \in DOMAIN logs :
            /\ logs[i].timestamp # Null
            /\ IF c.kind \in {"properties", "materials", "element", "tree"}
               THEN logs[i].message = ErrorLine(c)
               ELSE includes(logs[i].message, "Error")

\* loadIfcSchema ended in its catch block: the fetch failed or was not OK
SchemaLoadFailed ==
    loader = "SimpleIfcLoader" /\ schemaPc = "done" /\ DOMAIN inverseIfcSchema = {}

\* C11: after a resource-load error (the schema fetch failed, or the engine
\* script failed to load) the mounted component shows an error banner and
\* holds no success result
ResourceLoadErrorIsFatal ==
    mounted /\ (script = "failed" \/ SchemaLoadFailed)
        => error # Null /\ ~IsSuccess(result)

\* the call of fn has returned
Returned(fn) == call.fn = fn /\ call.done

\* the matched entries carry pairwise distinct names and pairwise distinct numbers
DistinctEntries(ms) ==
    \A i, j \in DOMAIN ms :
        i # j => ms[i].name # ms[j].name /\ parseInt(ms[i].value) # parseInt(ms[j].value)

ExactInverses(forward, inverse) ==
    /\ \A n \in DOMAIN forward : forward[n] \in DOMAIN inverse /\ inverse[forward[n]] = n
    /\ \A c \in DOMAIN inverse : inverse[c] \in DOMAIN forward /\ forward[inverse[c]] = c

TypeNameOrPlaceholder ==
    Returned("getTypeName") =>
        call.ret = IF call.arg.typeCode \in DOMAIN call.arg.inverse
                   THEN call.arg.inverse[call.arg.typeCode]
                   ELSE "Unknown Type (" \o NatToString(call.arg.typeCode) \o ")"

\* getTypeName answered for a code absent from a non-empty inverse map
PlaceholderReturned ==
    /\ Returned("getTypeName")
    /\ call.arg.inverse # <<>>
    /\ call.arg.typeCode \notin DOMAIN call.arg.inverse
    /\ call.ret = "Unknown Type (" \o NatToString(call.arg.typeCode) \o ")"

\* the express ids of a sequence of nodes / of elements
NodeIds(nodes) == [i \in DOMAIN nodes |-> nodes[i].expressID]
ElementIds(els) == [i \in DOMAIN els |-> els[i].id]

\* a can be obtained from b by deleting members
RECURSIVE IsSubsequence(_, _)
IsSubsequence(a, b) ==
    IF a = <<>> THEN TRUE
    ELSE IF b = <<>> THEN FALSE
    ELSE IF Head(a) = Head(b) THEN IsSubsequence(Tail(a), Tail(b))
    ELSE IsSubsequence(a, Tail(b))

\* the nodes extractModelElements has still to process, in the order it will
WalkRemaining == Concat([i \in DOMAIN stack |-> PreOrder(stack[i])])

WalkDone == Len(PreOrder(SpatialTree)) - Len(WalkRemaining)

\* C14: extractModelElements processes each node of the tree exactly once, a
\* node before its children and the children in the reported order (the
\* nodes still to process are always the rest of the pre-order listing), so
\* the element list is a subsequence of the pre-order listing, of length <= N
PreOrderWalk ==
    /\ loader = "IfcBuiltElementsLoader" /\ pc = "walk" =>
          /\ WalkDone >= 0
          /\ WalkRemaining = SubSeq(PreOrder(SpatialTree), WalkDone + 1,
                                    Len(PreOrder(SpatialTree)))
          /\ IsSubsequence(ElementIds(extracted),
                           NodeIds(SubSeq(PreOrder(SpatialTree), 1, WalkDone)))
    /\ BuiltRunDone =>
          /\ IsSubsequence(ElementIds(elements), NodeIds(PreOrder(SpatialTree)))
          /\ Len(elements) <= Len(PreOrder(SpatialTree))

\* a walk of the whole tree has ended and emitted several of its nodes
WalkFinished ==
    /\ BuiltRunDone
    /\ IsSuccess(result)
    /\ ElementIds(elements) = BuiltBaseline
    /\ Len(elements) > 1
    /\ Len(elements) < Len(PreOrder(SpatialTree))

\* the type name of a node, as a string
NodeTypeName(node) ==
    IF node.type.kind = "string" THEN node.type.s ELSE GetNameFromTypeCode(node.type.code)

\* the name, in upper case, contains a keyword of the allow-list; an empty
\* allow-list accepts every name
OnAllowList(typeName) ==
    \/ PHYSICAL_ELEMENT_TYPES = <<>>
    \/ \E k \in DOMAIN PHYSICAL_ELEMENT_TYPES :
          includes(toUpperCase(typeName), PHYSICAL_ELEMENT_TYPES[k])

\* C15: a spatial node is emitted exactly when includeAll is true or its type
\* name, in any case, contains a keyword of the allow-list; with includeAll
\* every node is emitted, without it IFCWALL is emitted and IFCSPACE is not
CandidateExactlyWhenAllowed ==
    Returned("processModelElement") =>
        /\ Len(call.ret.found) = 1
              <=> (call.arg.includeAll \/ OnAllowList(NodeTypeName(call.arg.node)))
        /\ Len(call.ret.found) <= 1
        /\ \A i \in DOMAIN call.ret.found :
              call.ret.found[i].id = call.arg.node.expressID
        /\ call.arg.includeAll => Len(call.ret.found) = 1
        /\ ~call.arg.includeAll /\ call.arg.node.type = TypeString("IFCWALL")
              => Len(call.ret.found) = 1
        /\ ~call.arg.includeAll /\ call.arg.node.type = TypeString("IFCSPACE")
              => call.ret.found = <<>>

\* a node typed in mixed case was emitted by the filter alone
MixedCaseCandidateEmitted ==
    /\ Returned("processModelElement")
    /\ ~call.arg.includeAll
    /\ call.arg.node.type = TypeString("IfcDoor")
    /\ Len(call.ret.found) = 1

\* the item of the one-item Quantities array a call was made with
QuantityArg == call.arg.entries[1].items[1]

\* the five value fields in the order LengthValue, AreaValue, VolumeValue,
\* WeightValue, CountValue, with the unit of each; "m2" and "m3" stand for
\* the units written with a superscript
ValueFields(q) ==
    <<[field |-> q.LengthValue, unit |-> Str("m"), name |-> "Length"],
      [field |-> q.AreaValue, unit |-> Str("m2"), name |-> "Area"],
      [field |-> q.VolumeValue, unit |-> Str("m3"), name |-> "Volume"],
      [field |-> q.WeightValue, unit |-> Str("kg"), name |-> "Weight"],
      [field |-> q.CountValue, unit |-> Str("count"), name |-> "Count"]>>

HasValueField(q) == \E k \in 1..5 : ValueFields(q)[k].field.present

\* the first of the five fields that is present
FirstValueField(q) ==
    ValueFields(q)[CHOOSE k \in 1..5 :
                     /\ ValueFields(q)[k].field.present
                     /\ \A j \in 1..(k - 1) : ~ValueFields(q)[j].field.present]

\* the quantity entries a returned call produced for its one item
QuantityEntries ==
    IF call.fn = "extractPropertySet" THEN call.ret.properties
    ELSE IF call.ret.found = <<>> THEN <<>>
    ELSE call.ret.found[1].quantities

\* the unit of an entry; undefined when the entry has no such field
UnitOf(entry) == IF "unit" \in DOMAIN entry THEN entry.unit ELSE Undefined

QuantityReturned ==
    /\ Returned("extractPropertySet") \/ Returned("quantities")
    /\ call.arg.entries[1].key = "Quantities"

\* C16: the first present of LengthValue, AreaValue, VolumeValue, WeightValue,
\* CountValue determines the value of the entry and its unit m, m2, m3, kg,
\* count
FirstPresentFieldDecides ==
    QuantityReturned /\ HasValueField(QuantityArg) =>
        /\ Len(QuantityEntries) = 1
        /\ QuantityEntries[1].value = FirstValueField(QuantityArg).field.value
        /\ UnitOf(QuantityEntries[1]) = FirstValueField(QuantityArg).unit

\* C17: an item with none of the five value fields is skipped by the
\* normalizer and by the simple loader
ItemWithoutValueSkipped ==
    QuantityReturned /\ ~HasValueField(QuantityArg) => QuantityEntries = <<>>

\* only the k-th of the five fields is present
OnlyField(q, k) ==
    \A j \in 1..5 : ValueFields(q)[j].field.present <=> j = k

\* C18: an item whose AreaValue is { value: v } yields one entry with value v,
\* the name Name.value or else Area, and the unit m2; likewise for LengthValue
\* and VolumeValue
SingleFieldEntry ==
    \A k \in 1..3 :
        QuantityReturned /\ OnlyField(QuantityArg, k) =>
            /\ Len(QuantityEntries) = 1
            /\ QuantityEntries[1].value = ValueFields(QuantityArg)[k].field.value
            /\ QuantityEntries[1].name =
                  (IF HasValue(QuantityArg.Name) THEN String(QuantityArg.Name.value)
                   ELSE ValueFields(QuantityArg)[k].name)
            /\ UnitOf(QuantityEntries[1]) = ValueFields(QuantityArg)[k].unit

\* the items of HasProperties that carry a NominalValue.value, each with its
\* 0-based index in the array
NominalItems(items) ==
    SelectSeq([k \in DOMAIN items |-> [item |-> items[k], i |-> k - 1]],
              LAMBDA x : x.item.NominalValue.present
                         /\ x.item.NominalValue.value # Undefined)

\* the name by position: IsExternal, LoadBearing, Property N
PositionalName(i) ==
    CASE i = 0 -> "IsExternal"
      [] i = 1 -> "LoadBearing"
      [] OTHER -> "Property " \o NatToString(i + 1)

PropertiesReturned ==
    /\ Returned("extractPropertySet")
    /\ call.arg.entries[1].key = "HasProperties"

\* C19: every item of HasProperties with a NominalValue.value yields exactly
\* one PropertyValue, in order, named by the item's Name.value or else by its
\* position (IsExternal, LoadBearing, Property N); the other items yield none
NominalValuesNamed ==
    PropertiesReturned =>
        LET Same(emitted, props) ==
                /\ Len(props) = Len(emitted)
                /\ \A k \in DOMAIN emitted :
                      /\ props[k].value = emitted[k].item.NominalValue.value
                      /\ props[k].name =
                            (IF emitted[k].item.Name.present
                                /\ emitted[k].item.Name.value # Undefined
                             THEN String(emitted[k].item.Name.value)
                             ELSE PositionalName(emitted[k].i))
        IN  Same(NominalItems(call.arg.entries[1].items), call.ret.properties)

\* an unnamed second item and an unnamed third item were named by position
NamedByPosition ==
    /\ PropertiesReturned
    /\ Len(call.ret.properties) = 3
    /\ call.ret.properties[1].name = "FireRating"
    /\ call.ret.properties[2].name = "LoadBearing"
    /\ call.ret.properties[3].name = "Property 3"

MaterialsReturned == Returned("extractMaterialsInfo")

\* the composite record of the call, its kind and its nested items
CompositeArg   == call.arg[1]
CompositeKind  == MaterialKind(CompositeArg)
CompositeItems == NestedItems(CompositeArg, CompositeKind)

\* the nested items that reference a material, with their 0-based index
Referencing ==
    SelectSeq([k \in DOMAIN CompositeItems |-> [item |-> CompositeItems[k], i |-> k - 1]],
              LAMBDA x : x.item.Material.present)

\* the properties of the parent entry other than Density
SyntheticProperties ==
    SelectSeq(call.ret[Len(call.ret)].properties.items, LAMBDA pv : pv.name # "Density")

\* one top-level MaterialInfo per referencing item, named after the material
\* and tagged by the parent kind, followed by exactly one parent entry
ReferencedThenParent ==
    /\ Len(call.ret) = Len(Referencing) + 1
    /\ \A k \in DOMAIN Referencing :
          /\ call.ret[k].name =
                (IF Referencing[k].item.Material.Name.present
                    /\ Referencing[k].item.Material.Name.value # Undefined
                 THEN String(Referencing[k].item.Material.Name.value) ELSE "Unknown")
          /\ call.ret[k].category = Str(CompositeKind \o " Material")
    /\ call.ret[Len(call.ret)].name = "Build-up"
    /\ call.ret[Len(call.ret)].category = Undefined

\* C20 as claimed: a composite record with k nested items yields one synthetic
\* PropertyValue per nested item on the parent, one top-level MaterialInfo per
\* nested item that references a material, and exactly one parent entry
OnePropertyPerNestedItem ==
    MaterialsReturned =>
        /\ Len(SyntheticProperties) = Len(CompositeItems)
        /\ ReferencedThenParent

\* the names of the properties nested item i (0-based) puts on the parent
NestedPropertyNames(item, i) ==
    LET Of(label) ==
            (IF CompositeKind = "Layer"
             THEN IF item.LayerThickness.present /\ item.LayerThickness.value # Undefined
                  THEN <<label \o " Thickness">> ELSE <<>>
             ELSE <<label \o " Name">>)
            \o (IF item.Material.present THEN <<label \o " Material">> ELSE <<>>)
    IN  Of(CompositeKind \o " " \o NatToString(i + 1))

\* C20, amended: on the parent, a layer yields a Thickness property when it
\* has a thickness, a profile or constituent always yields a Name property,
\* and every nested item that references a material yields a Material
\* property as well; each referencing item also yields one top-level
\* MaterialInfo tagged by the parent kind, and the parent entry comes once,
\* last
NestedItemProperties ==
    MaterialsReturned =>
        /\ [k \in DOMAIN SyntheticProperties |-> SyntheticProperties[k].name]
             = Concat([k \in DOMAIN CompositeItems |->
                         NestedPropertyNames(CompositeItems[k], k - 1)])
        /\ ReferencedThenParent

\* a layer set of two layers: the first, with a thickness and a material, put
\* two properties on the parent, the second none
LayerWithTwoProperties ==
    /\ MaterialsReturned
    /\ CompositeKind = "Layer"
    /\ Len(CompositeItems) = 2
    /\ Len(call.ret) = 2
    /\ [k \in DOMAIN SyntheticProperties |-> SyntheticProperties[k].name]
         = <<"Layer 1 Thickness", "Layer 1 Material">>

\* the kind a type tag names, and the nested array of that kind
TagKind(material) ==
    CASE material.type = "IFCMATERIAL"               -> "Simple"
      [] material.type = "IFCMATERIALLAYERSET"       -> "Layer"
      [] material.type = "IFCMATERIALPROFILESET"     -> "Profile"
      [] material.type = "IFCMATERIALCONSTITUENTSET" -> "Constituent"
      [] OTHER                                       -> "Other"

TagItems(material) ==
    CASE TagKind(material) = "Layer"       -> material.MaterialLayers.items
      [] TagKind(material) = "Profile"     -> material.MaterialProfiles.items
      [] TagKind(material) = "Constituent" -> material.MaterialConstituents.items
      [] OTHER                             -> <<>>

\* C21: a raw material record is handled as the kind its type tag names,
\* whatever nested arrays it also carries: the entries emitted before the
\* parent are those of the tag's own array, tagged with the tag's kind
ClassifiedByTypeTag ==
    MaterialsReturned /\ TagKind(CompositeArg) # "Other" =>
        /\ Len(call.ret) =
              1 + Cardinality({k \in DOMAIN TagItems(CompositeArg) :
                                 TagItems(CompositeArg)[k].Material.present})
        /\ \A k \in 1..(Len(call.ret) - 1) :
              call.ret[k].category = Str(TagKind(CompositeArg) \o " Material")

StructuredReturned == Returned("organizeStructuredMaterials")

\* the call was made with one layer set; its layers
OneLayerSet ==
    /\ StructuredReturned
    /\ Len(call.arg) = 1
    /\ call.arg[1].type = "IFCMATERIALLAYERSET"

LayersArg == call.arg[1].MaterialLayers.items

\* every layer of the layer set refers to a material (the names are distinct)
AllLayersRefer == \A k \in DOMAIN LayersArg : LayersArg[k].Material.present

\* the entries of the structured list of a given type
OfType(structured, ty) == SelectSeq(structured, LAMBDA e : e.type = ty)

\* the materials list holds one 'Layer Material' entry per layer, named after
\* the referenced material, before the entry of the layer set
ReferencedInMaterials ==
    /\ Len(call.ret.materials) = Len(LayersArg) + 1
    /\ \A k \in DOMAIN LayersArg :
          /\ call.ret.materials[k].name = "M" \o NatToString(k)
          /\ call.ret.materials[k].category = Str("Layer Material")

\* C22 as claimed: a layer set with n layers, each referring to a distinct
\* named material, yields one LayerSet entry with n layers plus n simple
\* entries for the referenced materials
LayerSetPlusSimpleEntries ==
    OneLayerSet /\ AllLayersRefer /\ Len(LayersArg) \in 1..20 =>
        /\ Len(OfType(call.ret.structured, "LayerSet")) = 1
        /\ Len(OfType(call.ret.structured, "LayerSet")[1].layers.items) = Len(LayersArg)
        /\ Len(OfType(call.ret.structured, "Simple")) = Len(LayersArg)
        /\ \A k \in DOMAIN LayersArg :
              \E j \in DOMAIN call.ret.structured :
                  /\ call.ret.structured[j].type = "Simple"
                  /\ call.ret.structured[j].name = "M" \o NatToString(k)

\* the indices of the layers that have a thickness
ThickLayers ==
    SelectSeq([k \in DOMAIN LayersArg |-> k],
              LAMBDA k : LayersArg[k].LayerThickness.present
                         /\ LayersArg[k].LayerThickness.value # Undefined)

\* C22, amended: such a layer set yields exactly one structured entry; when
\* some layer has a thickness it is a LayerSet whose layers are the layers
\* that have a thickness, otherwise it is a Simple entry for the set; the n
\* referenced materials are entries of the materials list, tagged 'Layer
\* Material', and get no structured entry
LayerSetAloneInStructured ==
    OneLayerSet /\ AllLayersRefer /\ Len(LayersArg) \in 1..20 =>
        /\ ReferencedInMaterials
        /\ Len(call.ret.structured) = 1
        /\ call.ret.structured[1].name = "Build-up"
        /\ IF ThickLayers # <<>>
           THEN /\ call.ret.structured[1].type = "LayerSet"
                /\ call.ret.structured[1].layers.items =
                      [j \in DOMAIN ThickLayers |->
                          [index |-> ThickLayers[j], thickness |-> Num(2),
                           material |-> "M" \o NatToString(ThickLayers[j])]]
           ELSE /\ call.ret.structured[1].type = "Simple"
                /\ ~call.ret.structured[1].layers.present

\* three layers, each with a thickness and a material of its own
ThreeLayersStructured ==
    /\ OneLayerSet
    /\ Len(LayersArg) = 3
    /\ Len(ThickLayers) = 3
    /\ AllLayersRefer
    /\ Len(call.ret.materials) = 4
    /\ Len(call.ret.structured) = 1
    /\ Len(call.ret.structured[1].layers.items) = 3

\* the indices, up to 20, of the layers that have a thickness and a material
KeptLayers ==
    SelectSeq([k \in DOMAIN LayersArg |-> k],
              LAMBDA k : /\ k <= 20
                         /\ LayersArg[k].LayerThickness.present
                         /\ LayersArg[k].LayerThickness.value # Undefined
                         /\ LayersArg[k].Material.present)

\* C23: a LayerSet entry never holds more than 20 layers; every layer with
\* index <= 20 that has both a thickness and a material is kept, in index
\* order, and the layers with index > 20 are dropped: the call still returns
\* its list
AtMostTwentyLayers ==
    OneLayerSet =>
        /\ \A j \in DOMAIN call.ret.structured :
              Len(call.ret.structured[j].layers.items) <= 20
        /\ Len(OfType(call.ret.structured, "LayerSet")) = (IF KeptLayers = <<>> THEN 0 ELSE 1)
        /\ \A j \in DOMAIN call.ret.structured :
              call.ret.structured[j].type = "LayerSet" =>
                  [i \in DOMAIN call.ret.structured[j].layers.items |->
                      call.ret.structured[j].layers.items[i].index] = KeptLayers

\* a layer set of 22 complete layers came back with its first 20
ExtraLayersDropped ==
    /\ OneLayerSet
    /\ Len(LayersArg) = 22
    /\ Len(call.ret.materials) = 23
    /\ Len(call.ret.structured) = 1
    /\ Len(call.ret.structured[1].layers.items) = 20

\* C30: every entry of the materials list whose category is not 'Layer
\* Material', 'Profile Material' or 'Constituent Material' has an entry of the
\* same name in the structured list
NoRealMaterialLost ==
    StructuredReturned =>
        \A k \in DOMAIN call.ret.materials :
            call.ret.materials[k].category
                \notin {Str("Layer Material"), Str("Profile Material"),
                        Str("Constituent Material")}
            => \E j \in DOMAIN call.ret.structured :
                  call.ret.structured[j].name = call.ret.materials[k].name

\* every element on display carries the property sets and the materials that
\* its extraction ends with, and the grouping holds the same elements
DisplayedComplete ==
    /\ \A i \in DOMAIN elements :
          \E propsOk, matsOk \in BOOLEAN :
              /\ elements[i].propertySets
                    = extractAllProperties(elements[i].id, propsOk).result
              /\ elements[i].materials
                    = extractMaterialsInfo(elements[i].id, matsOk).result
              /\ elements[i].structuredMaterials
                    = organizeStructuredMaterials(elements[i].materials)
    /\ elementsByType = GroupByType(elements)

\* C24: the element list on display is empty or complete: it is set only when
\* the whole tree walk has finished, with everything the walk found, and
\* never while the extraction of some element is pending
DisplayedOnlyWhenComplete ==
    /\ [](elements # <<>> =>
            /\ pc # "walk" /\ stack = <<>> /\ extracted = <<>>
            /\ DisplayedComplete)
    /\ [][elements' # elements =>
            \/ elements' = <<>>
            \/ pc = "walk" /\ stack = <<>> /\ elements' = extracted]_vars

\* a wall is on display with its property sets and its materials
CompleteElementDisplayed ==
    /\ loader = "IfcBuiltElementsLoader"
    /\ \E i \in DOMAIN elements :
          /\ elements[i].id = 2
          /\ Len(elements[i].propertySets) > 0
          /\ Len(elements[i].materials) > 0
          /\ Len(elements[i].structuredMaterials) > 0

\* the fields of the elements on display that the export writes
ExportElements(els) ==
    [k \in DOMAIN els |->
        [id |-> els[k].id, type |-> els[k].type, typeName |-> els[k].typeName,
         name |-> els[k].name, globalId |-> els[k].globalId,
         propertySets |-> els[k].propertySets, materials |-> els[k].materials,
         structuredMaterials |-> els[k].structuredMaterials]]

\* C25: an element list written to JSON as the export does and parsed back is
\* equal, field for field, to the list that was written (a field that holds
\* undefined counts as equal to a field that is missing)
ExportRoundTrips ==
    /\ Returned("handleDownloadElements") => call.ret.parsed = ExportElements(call.arg)
    /\ Returned("handleDownload") => call.ret.parsed = call.arg

\* C26: a CloseModel call that throws does not change the outcome of the run:
\* the messages on display stay as they are (simple loader, cleanup effect)
\* and the worker posts no error message after its result
CloseFailureNotPropagated ==
    [][/\ \A r \in Requests :
            runs'[r].model = "closeThrew" /\ runs[r].model # "closeThrew"
               => error' = error
       /\ \A r \in Requests :
            wModel'[r] = "closeThrew" /\ wModel[r] # "closeThrew"
               => posted'[r].error = 0
       /\ (\E c \in caught' \ caught : c.kind = "close")
               => error' = error /\ result' = result]_vars

\* C27: once the file runs have ended, the success message and the error
\* message are never both set
NeverSuccessAndError ==
    RunsInFlight = {} /\ mainInbox = <<>> =>
        /\ ~(result # Null /\ error # Null)
        /\ ~(modelInfo # Null /\ error # Null)

\* C28: a run of the simple loader that was started for an earlier file
\* writes no result, elements, spatial structure, error or log line once a
\* later file has been selected
EarlierRunWritesNothing ==
    [][\A r \in Requests :
          loader = "SimpleIfcLoader" /\ r < nFiles /\ runs'[r] # runs[r]
             => UNCHANGED <<result, parsedElements, spatialStructure, error, logs>>]_vars

\* C29: when the schema load has completed, in whatever order with the file
\* run, every element on display whose numeric type code the schema defines
\* carries the schema name, and the slab's quantity set, whose type is the
\* code of IFCELEMENTQUANTITY, was recognised
SchemaCodesResolved ==
    loader = "SimpleIfcLoader" /\ schemaPc = "done"
    /\ inverseIfcSchema = InverseMap(SchemaMatches) =>
        \A k \in DOMAIN parsedElements :
            parsedElements[k].type.t = "number"
            /\ parsedElements[k].type.n \in DOMAIN inverseIfcSchema
            => /\ parsedElements[k].typeName = inverseIfcSchema[parsedElements[k].type.n]
               /\ parsedElements[k].expressID = 5 /\ (\A r \in Requests : runs[r].thrown = {})
                     => parsedElements[k].quantities.present

====
